---- MODULE Spec2Model ----
(***************************************************************************)
(* A state-machine model of Palette Pro (src/src/App.js): the palette      *)
(* generator, the mix effect, the localStorage normalizer and the handlers *)
(* of the App component that act on the ingredient working set and on the  *)
(* saved-palette collection.                                               *)
(*                                                                         *)
(* Numbers that may carry a fraction (ids: Date.now() + Math.random())     *)
(* are kept in fixed point: the integer n stands for n / IdScale, so a     *)
(* whole millisecond count t is Ms(t) = t * IdScale.                       *)
(***************************************************************************)
EXTENDS Integers, Sequences, FiniteSets, TLC

(* ------------------------------ constants ------------------------------ *)

MAX_SAVED_PALETTES == 20

KEY_DARK_MODE == "appDarkMode_v3"
KEY_SAVED_PALETTES == "appSavedPalettes_v3"
KEY_DISPLAY_FORMAT == "appDisplayFormat_v1"
LOCAL_STORAGE_KEYS == {KEY_DARK_MODE, KEY_SAVED_PALETTES, KEY_DISPLAY_FORMAT}

GRADIENT_DIRECTIONS ==
  {"to right", "to bottom", "to top left", "to bottom right", "45deg", "135deg"}
PALETTE_TYPES ==
  {"monochromatic", "analogous", "complementary", "split-complementary", "triadic"}
DISPLAY_FORMATS == {"hex", "rgb", "hsl"}

\* the range slider of the count control: min="3" max="12"
COUNT_MIN == 3
COUNT_MAX == 12

(* ------------------------------- bounds -------------------------------- *)

\* fixed-point resolution: Math.random() takes the values r / IdScale, r in 0..IdScale-1
IdScale == 2
\* the clock (Date.now(), in ms) runs from 1 to StartClock + MaxClock
MaxClock == 2
\* user operations in one behaviour (typing into an open name input is not counted)
MaxOps == 1
\* addMixColor is tried only while the working set has fewer members than this
MaxMix == 3
\* the overfull stored collection holds MAX_SAVED_PALETTES + Extra records
Extra == 1

Ms(t) == t * IdScale

\* the clock reading when the page is first opened; stored ids are older
StartClock == MAX_SAVED_PALETTES + Extra + 10

(* ------------------------- JavaScript values --------------------------- *)

\* null as the value of a string-typed state variable (mixedColor)
NULL == "<null>"
\* null as the value of an id-typed state variable (editingPaletteId)
NoId == -1

\* JSON values, tagged by type; JUndef is the value of a missing property
JUndef == [t |-> "undef"]
JNull == [t |-> "null"]
JBool(b) == [t |-> "bool", b |-> b]
JNum(n) == [t |-> "num", n |-> n]
JStr(s) == [t |-> "str", s |-> s]
JArr(a) == [t |-> "arr", a |-> a]
JObj(o) == [t |-> "obj", o |-> o]

\* v.f for a JSON value v that is not null: the property, or undefined
Prop(v, f) == IF v.t = "obj" /\ f \in DOMAIN v.o THEN v.o[f] ELSE JUndef

\* JavaScript truthiness, as || and the if tests use it
Truthy(v) ==
  CASE v.t \in {"undef", "null"} -> FALSE
    [] v.t = "bool" -> v.b
    [] v.t = "num" -> v.n # 0
    [] v.t = "str" -> v.s # ""
    [] OTHER -> TRUE

IsArray(v) == v.t = "arr"

\* Array.prototype.slice(0, n); a negative n counts from the end
Slice0(s, n) ==
  SubSeq(s, 1, IF n < 0 THEN (IF Len(s) + n < 0 THEN 0 ELSE Len(s) + n)
               ELSE IF Len(s) < n THEN Len(s) ELSE n)

(* --------------------------- the text layer ---------------------------- *)

\* A stored text is the JSON serialization of a value ("json"), a double-quoted
\* string ("quoted"), or characters written as they are ("raw"); getItem gives
\* null for a key that was never set ("absent").
Absent == [txt |-> "absent"]
Raw(s) == [txt |-> "raw", s |-> s]
Quoted(s) == [txt |-> "quoted", s |-> s]
Json(v) == [txt |-> "json", v |-> v]

\* JSON.stringify of a JSON value
JSONstringify(v) ==
  CASE v.t = "null" -> Raw("null")
    [] v.t = "bool" -> Raw(IF v.b THEN "true" ELSE "false")
    [] v.t = "num" -> Raw(ToString(v.n))
    [] v.t = "str" -> Quoted(v.s)
    [] OTHER -> Json(v)

\* the numbers a raw text of the model can spell
NumLits == 0..9

\* JSON.parse: [ok |-> FALSE] stands for the SyntaxError it throws
JSONparse(text) ==
  CASE text.txt = "json" -> [ok |-> TRUE, v |-> text.v]
    [] text.txt = "quoted" -> [ok |-> TRUE, v |-> JStr(text.s)]
    [] text.txt = "raw" ->
         IF text.s = "null" THEN [ok |-> TRUE, v |-> JNull]
         ELSE IF text.s = "true" THEN [ok |-> TRUE, v |-> JBool(TRUE)]
         ELSE IF text.s = "false" THEN [ok |-> TRUE, v |-> JBool(FALSE)]
         ELSE IF \E n \in NumLits : text.s = ToString(n)
           THEN [ok |-> TRUE, v |-> JNum(CHOOSE n \in NumLits : text.s = ToString(n))]
         ELSE [ok |-> FALSE]
    [] OTHER -> [ok |-> FALSE]

(* ------------------------- the chroma adapter -------------------------- *)

\* the tokens of the model that chroma does not accept as a color
InvalidTokens == {"", "zzz"}

\* chroma.valid
chromaValid(c) == c # NULL /\ c \notin InvalidTokens

\* chroma(c).hex(): the canonical lower-case six-digit form
chromaHex(c) ==
  CASE c = "#FFF" -> "#ffffff"
    [] c = "#E11D48" -> "#e11d48"
    [] c = "red" -> "#ff0000"
    [] OTHER -> c

RECURSIVE JoinColors(_)
JoinColors(s) ==
  IF s = << >> THEN ""
  ELSE IF Len(s) = 1 THEN s[1]
  ELSE s[1] \o "," \o JoinColors(Tail(s))

\* chroma.average(colors, 'lab').hex(), as an uninterpreted term over its inputs
chromaAverage(colors) == "avg(" \o JoinColors([i \in 1..Len(colors) |-> chromaHex(colors[i])]) \o ")"

\* base.set('hsl.h', h).hex(), base.darken(2).hex(), base.brighten(2).hex()
chromaSetHue(base, h) == "hue(" \o base \o "," \o h \o ")"
chromaDarken(base) == "darken(" \o base \o ")"
chromaBrighten(base) == "brighten(" \o base \o ")"

\* chroma.scale(stops).mode('lch').colors(count): count samples, evenly spaced
chromaScaleColors(stops, count) ==
  [i \in 1..count |->
     "lch(" \o JoinColors(stops) \o ")" \o ToString(i) \o "/" \o ToString(count)]

Reverse(s) == [i \in 1..Len(s) |-> s[Len(s) + 1 - i]]

\* The adapter call that throws in a run of generatePalette, of the mix effect
\* or of safeColorFormat, or a sample of the scale that chroma.valid refuses;
\* NoFault: the adapter does what its documentation says.
NoFault == [kind |-> "none", at |-> 0]
Throws(kind) == [kind |-> kind, at |-> 0]
SampleThrows(k) == [kind |-> "sample throws", at |-> k]
SampleInvalid(k) == [kind |-> "sample invalid", at |-> k]

\* variant of the test of line 31: without the count
rejectsInputAnyCount(baseColor, count) == baseColor = NULL \/ ~chromaValid(baseColor)

\* the test of line 31
rejectsInput(baseColor, count) ==
  baseColor = NULL \/ baseColor = "" \/ ~chromaValid(baseColor) \/ count < 1

\* variant of the black test: a luminance no color has
isBlackNever(base) == FALSE

\* base.luminance() === 0 and === 1 (lines 37, 39)
isBlack(base) == base = "#000000"
isWhite(base) == base = "#ffffff"

\* variant of line 50: the pair is not cut to count
complementaryPairWhole(base, count) == <<base, chromaSetHue(base, "+180 mod 360")>>

\* [baseHex, complement.hex()].slice(0, count) (line 50)
complementaryPair(base, count) ==
  Slice0(<<base, chromaSetHue(base, "+180 mod 360")>>, count)

\* lines 37-68 for the base `base` (its hex form): the colors they compute and
\* the kinds of adapter call they make on the way
colorsOfBranch(base, type, count) ==
  IF isBlack(base)
    THEN [calls |-> {"lighten", "scale"},
          colors |-> chromaScaleColors(<<"#000000", chromaBrighten(base), "#888888">>, count)]
  ELSE IF isWhite(base)
    THEN [calls |-> {"darken", "scale"},
          colors |->
            Reverse(chromaScaleColors(<<"#888888", chromaDarken(base), "#ffffff">>, count))]
  ELSE
    CASE type = "analogous" ->
           [calls |-> {"hue", "scale"},
            colors |-> chromaScaleColors(
                         <<chromaSetHue(base, "+30"), base, chromaSetHue(base, "-30")>>, count)]
      [] type = "complementary" ->
           IF count <= 2
             THEN [calls |-> {"hue"}, colors |-> complementaryPair(base, count)]
           ELSE [calls |-> {"hue", "scale"},
                 colors |-> chromaScaleColors(
                              <<base, chromaSetHue(base, "+180 mod 360")>>, count)]
      [] type = "triadic" ->
           [calls |-> {"hue", "scale"},
            colors |-> chromaScaleColors(
                         <<base, chromaSetHue(base, "+120"), chromaSetHue(base, "-120"), base>>,
                         count)]
      [] type = "split-complementary" ->
           [calls |-> {"hue", "scale"},
            colors |-> chromaScaleColors(
                         <<base, chromaSetHue(base, "+150"), chromaSetHue(base, "-150"), base>>,
                         count)]
      [] OTHER ->
           [calls |-> {"darken", "lighten", "scale"},
            colors |-> chromaScaleColors(
                         <<chromaDarken(base), base, chromaBrighten(base)>>, count)]

\* colors.map(...) of lines 69-72: a sample chroma.valid refuses, or on which
\* chroma(c).hex() throws, becomes '#FF0000'
revalidated(colors, fault) ==
  [i \in 1..Len(colors) |->
     IF fault.kind \in {"sample throws", "sample invalid"} /\ fault.at = i THEN "#FF0000"
     ELSE IF chromaValid(colors[i]) THEN chromaHex(colors[i])
     ELSE "#FF0000"]

\* stands for an exception leaving generatePalette: a value it never returns
THROWN == <<"<thrown>">>

\* variant of lines 32-76: without the catch of line 73
generatedFromUncaught(branch, fault) ==
  IF fault.kind \in branch.calls THEN THROWN ELSE revalidated(branch.colors, fault)

\* lines 32-76 given what the branch computed: the catch of line 73 answers
\* any throw with []
generatedFrom(branch, fault) ==
  IF fault.kind \in branch.calls THEN << >> ELSE revalidated(branch.colors, fault)

\* generatePalette(baseColor, type, count) (lines 30-77) with the adapter
\* failing as `fault` says. chroma(baseColor) throws on a token it does not
\* accept.
generatePalette(baseColor, type, count, fault) ==
  IF rejectsInput(baseColor, count) THEN << >>
  ELSE IF baseColor = NULL \/ ~chromaValid(baseColor) \/ fault.kind = "conversion" THEN << >>
  ELSE generatedFrom(colorsOfBranch(chromaHex(baseColor), type, count), fault)

\* c.name(): the name chroma knows for the color, or its hex form
chromaName(c) ==
  CASE chromaHex(c) = "#ff0000" -> "red"
    [] chromaHex(c) = "#ffffff" -> "white"
    [] chromaHex(c) = "#000000" -> "black"
    [] OTHER -> chromaHex(c)

\* `rgb(${c.rgb().map(Math.round).join(', ')})` and the hsl text of lines 85-89,
\* as terms over the color
chromaRgbText(c) == "rgb(" \o chromaHex(c) \o ")"
chromaHslText(c) == "hsl(" \o chromaHex(c) \o ")"

\* variant of the test of line 81: without the validity
formatsNothingIfAbsent(color) == color = NULL \/ color = ""

\* the test of line 81
formatsNothing(color) == color = NULL \/ color = "" \/ ~chromaValid(color)

\* safeColorFormat(color, format) (lines 80-100) with the adapter failing as
\* `fault` says; chroma(color) throws on a token it does not accept
safeColorFormat(color, format, fault) ==
  IF formatsNothing(color) THEN "N/A"
  ELSE IF color = NULL \/ ~chromaValid(color) \/ fault.kind = "conversion" THEN "Error"
  ELSE IF format = "rgb"
    THEN IF fault.kind = "rgb" THEN "Error" ELSE chromaRgbText(color)
  ELSE IF format = "hsl"
    THEN IF fault.kind = "hsl" THEN "Error" ELSE chromaHslText(color)
  ELSE IF format = "name"
    THEN IF fault.kind = "name" THEN "~" \o chromaHex(color)
         ELSE IF fault.kind = "name and hex" THEN "Error"
         ELSE chromaName(color)
  ELSE IF fault.kind \in {"hex", "name and hex"} THEN "Error"
  ELSE chromaHex(color)

(* -------------------------- the id allocator --------------------------- *)

\* createMixColorItem(color) with the module counter at nextId; randomHex is what
\* getRandomHexColor() would give. Returns the item and the counter afterwards.
\* variant of createMixColorItem: the valid flag is not computed
createMixColorItemTrusting(color, nextId, randomHex) ==
  [item |-> [id |-> nextId + Ms(1),
             color |-> IF color # NULL /\ color # "" THEN color ELSE randomHex,
             valid |-> TRUE, locked |-> FALSE],
   next |-> nextId + Ms(1)]

createMixColorItem(color, nextId, randomHex) ==
  LET id == nextId + Ms(1)
      initialColor == IF color # NULL /\ color # "" THEN color ELSE randomHex
  IN [item |-> [id |-> id, color |-> initialColor,
                valid |-> chromaValid(initialColor), locked |-> FALSE],
      next |-> id]

\* Date.now() + Math.random(), with the draw r in 0..IdScale-1
freshId(now, r) == Ms(now) + r

\* the draw of the Math.random() call made for ingredient j of record i
\* (j = 0: the record's own id) in a run of the normalizer seeded with seed
Rand(seed, i, j) == (seed + i + j) % IdScale

(* --------------------------- the normalizer ---------------------------- *)

\* the callback of p.mixColors.map (lines 144-154); threw: a TypeError left it
coerceMixColor(mc, nextId, now, r, randomHex) ==
  IF mc.t = "str"
    THEN LET c == createMixColorItem(mc.s, nextId, randomHex)
         IN [threw |-> FALSE, item |-> c.item, next |-> c.next]
  ELSE IF mc.t = "null"
    THEN [threw |-> TRUE, next |-> nextId]
  ELSE
    LET color == IF Truthy(Prop(mc, "color")) THEN Prop(mc, "color").s ELSE "#ffffff"
    IN [threw |-> FALSE,
        item |-> [id |-> IF Truthy(Prop(mc, "id")) THEN Prop(mc, "id").n
                         ELSE freshId(now, r),
                  color |-> color,
                  valid |-> IF Prop(mc, "valid").t # "undef" THEN Prop(mc, "valid").b
                            ELSE chromaValid(color),
                  locked |-> IF Prop(mc, "locked").t # "undef" THEN Prop(mc, "locked").b
                             ELSE FALSE],
        next |-> nextId]

\* one step of a map that threads the id counter: the element's result in front
\* of the rest's, or the throw of whichever threw first
consItem(head, rest) ==
  [threw |-> rest.threw, items |-> <<head.item>> \o rest.items, next |-> rest.next]

\* p.mixColors.map(...), from entry j on: the items, or threw at the first null
RECURSIVE mapMixColors(_, _, _, _, _, _, _)
mapMixColorsAfter(head, mcs, j, now, seed, i, randomHex) ==
  IF head.threw THEN [threw |-> TRUE, items |-> << >>, next |-> head.next]
  ELSE consItem(head, mapMixColors(mcs, j + 1, head.next, now, seed, i, randomHex))

mapMixColors(mcs, j, nextId, now, seed, i, randomHex) ==
  IF j > Len(mcs) THEN [threw |-> FALSE, items |-> << >>, next |-> nextId]
  ELSE mapMixColorsAfter(coerceMixColor(mcs[j], nextId, now, Rand(seed, i, j), randomHex),
                         mcs, j, now, seed, i, randomHex)

\* the ingredient list of the record made from element p (lines 144-154)
mixColorsOf(p, i, nextId, now, seed, randomHex) ==
  IF IsArray(Prop(p, "mixColors"))
    THEN mapMixColors(Prop(p, "mixColors").a, 1, nextId, now, seed, i, randomHex)
  ELSE consItem(createMixColorItem("#ffffff", nextId, randomHex),
                [threw |-> FALSE, items |-> << >>,
                 next |-> createMixColorItem("#ffffff", nextId, randomHex).next])

\* the record made from element p (lines 141-159), given its ingredient list
savedPaletteOf(p, i, mixes, now, seed) ==
  IF mixes.threw THEN [threw |-> TRUE, next |-> mixes.next]
  ELSE
    [threw |-> FALSE,
     item |-> [id |-> IF Truthy(Prop(p, "id")) THEN Prop(p, "id").n
                      ELSE freshId(now, Rand(seed, i, 0)),
               name |-> IF Truthy(Prop(p, "name")) THEN Prop(p, "name").s
                        ELSE "Saved Palette "
                               \o (IF Truthy(Prop(p, "id")) THEN ToString(Prop(p, "id").n)
                                   ELSE ""),
               mixColors |-> mixes.items,
               mixedColor |-> IF Truthy(Prop(p, "mixedColor"))
                                THEN Prop(p, "mixedColor").s ELSE "#808080",
               palette |-> IF IsArray(Prop(p, "palette"))
                             THEN [k \in 1..Len(Prop(p, "palette").a) |->
                                     Prop(p, "palette").a[k].s]
                           ELSE << >>,
               type |-> IF Truthy(Prop(p, "type")) THEN Prop(p, "type").s
                        ELSE "monochromatic",
               count |-> IF Truthy(Prop(p, "count")) THEN Prop(p, "count").n ELSE 5,
               gradientDirection |-> IF Truthy(Prop(p, "gradientDirection"))
                                       THEN Prop(p, "gradientDirection").s
                                     ELSE "to right"],
     next |-> mixes.next]

\* the callback of parsed.map (lines 141-160) for element p at index i; reading
\* a property of null throws
coerceSavedPalette(p, i, nextId, now, seed, randomHex) ==
  IF p.t = "null" THEN [threw |-> TRUE, next |-> nextId]
  ELSE savedPaletteOf(p, i, mixColorsOf(p, i, nextId, now, seed, randomHex), now, seed)

\* parsed.map(...), from element i on
RECURSIVE mapSavedPalettes(_, _, _, _, _, _)
mapSavedPalettesAfter(head, parsed, i, now, seed, randomHex) ==
  IF head.threw THEN [threw |-> TRUE, items |-> << >>, next |-> head.next]
  ELSE consItem(head, mapSavedPalettes(parsed, i + 1, head.next, now, seed, randomHex))

mapSavedPalettes(parsed, i, nextId, now, seed, randomHex) ==
  IF i > Len(parsed) THEN [threw |-> FALSE, items |-> << >>, next |-> nextId]
  ELSE mapSavedPalettesAfter(coerceSavedPalette(parsed[i], i, nextId, now, seed, randomHex),
                             parsed, i, now, seed, randomHex)

\* .slice(0, MAX_SAVED_PALETTES)
\* variants of the slice: none at all, and the last records instead of the first
sliceToMaxDropped(recs) == recs
sliceToMaxFromEnd(recs) ==
  SubSeq(recs, IF Len(recs) > MAX_SAVED_PALETTES THEN Len(recs) - MAX_SAVED_PALETTES + 1 ELSE 1,
         Len(recs))

sliceToMax(recs) == Slice0(recs, MAX_SAVED_PALETTES)

\* the return of line 141-160, or the catch of line 171 when the map threw
savedPalettesResult(m, defaultValue) ==
  IF m.threw THEN [value |-> defaultValue, next |-> m.next]
  ELSE [value |-> JArr(sliceToMax(m.items)), next |-> m.next]

\* variant of the format test: any string
isAllowedFormatAnyString(parsed) == parsed.t = "str"

\* the test of line 167
isAllowedFormat(parsed) == parsed.t = "str" /\ parsed.s \in {"hex", "rgb", "hsl"}

\* lines 140-170, on the parsed value
normalized(key, parsed, defaultValue, nextId, now, seed, randomHex) ==
  IF key = KEY_SAVED_PALETTES /\ IsArray(parsed)
    THEN savedPalettesResult(mapSavedPalettes(parsed.a, 1, nextId, now, seed, randomHex),
                             defaultValue)
  ELSE IF key = KEY_DARK_MODE
    THEN [value |-> IF parsed.t = "bool" THEN parsed ELSE defaultValue, next |-> nextId]
  ELSE IF key = KEY_DISPLAY_FORMAT
    THEN [value |-> IF isAllowedFormat(parsed) THEN parsed ELSE defaultValue,
          next |-> nextId]
  ELSE [value |-> parsed, next |-> nextId]

\* loadStateFromLocalStorage(key, defaultValue) on the store `store`. value is
\* what it returns (a JSON value; a collection of records is JArr of them), next
\* the id counter afterwards. Everything runs inside the try: a throw anywhere
\* ends in the catch, which returns defaultValue.
loadStateFromLocalStorage(key, defaultValue, store, nextId, now, seed, randomHex) ==
  IF store[key] = Absent THEN [value |-> defaultValue, next |-> nextId]
  ELSE IF ~JSONparse(store[key]).ok THEN [value |-> defaultValue, next |-> nextId]
  ELSE normalized(key, JSONparse(store[key]).v, defaultValue, nextId, now, seed, randomHex)

(* ------------------------------ effects -------------------------------- *)

\* variant of the mix: the valid flags are not looked at
mixedColorOfAll(mixes) ==
  IF \E i \in 1..Len(mixes) : ~chromaValid(mixes[i].color) THEN NULL
  ELSE IF Len(mixes) >= 2 THEN chromaAverage([i \in 1..Len(mixes) |-> mixes[i].color])
  ELSE IF Len(mixes) = 1 THEN chromaHex(mixes[1].color)
  ELSE NULL

\* the "Calculate mixed color" effect (lines 387-398): what it passes to
\* setMixedColor. chroma throws on a color it does not accept; both try blocks
\* catch that and give null.
mixedColorOf(mixes) ==
  LET validItems == SelectSeq(mixes, LAMBDA item : item.valid)
      validColorsToMix == [i \in 1..Len(validItems) |-> validItems[i].color]
      throws == \E i \in 1..Len(validColorsToMix) : ~chromaValid(validColorsToMix[i])
  IN IF Len(validColorsToMix) >= 2
       THEN IF throws THEN NULL ELSE chromaAverage(validColorsToMix)
     ELSE IF Len(validColorsToMix) = 1
       THEN IF throws THEN NULL ELSE chromaHex(validColorsToMix[1])
     ELSE NULL

\* the "Regenerate palette" effect (lines 401-406): what it passes to setPalette
paletteOf(mixed, type, count) ==
  IF mixed # NULL /\ chromaValid(mixed) THEN generatePalette(mixed, type, count, NoFault) ELSE << >>

\* a record of the application as the JSON value JSON.stringify writes for it
mixColorToJson(mc) ==
  JObj([id |-> JNum(mc.id), color |-> JStr(mc.color),
        valid |-> JBool(mc.valid), locked |-> JBool(mc.locked)])

savedPaletteToJson(p) ==
  JObj([id |-> JNum(p.id),
        name |-> JStr(p.name),
        mixColors |-> JArr([j \in 1..Len(p.mixColors) |-> mixColorToJson(p.mixColors[j])]),
        mixedColor |-> JStr(p.mixedColor),
        palette |-> JArr([k \in 1..Len(p.palette) |-> JStr(p.palette[k])]),
        type |-> JStr(p.type),
        count |-> JNum(p.count),
        gradientDirection |-> JStr(p.gradientDirection)])

\* the value of the savedPalettes state as JSON.stringify sees it
savedPalettesToJson(sp) ==
  IF IsArray(sp) THEN JArr([i \in 1..Len(sp.a) |-> savedPaletteToJson(sp.a[i])]) ELSE sp

\* the three persistence effects (lines 409-426): the store they leave. The
\* display format is written as it is, without JSON.stringify.
persisted(dark, sp, format) ==
  [k \in LOCAL_STORAGE_KEYS |->
     IF k = KEY_DARK_MODE THEN JSONstringify(JBool(dark))
     ELSE IF k = KEY_SAVED_PALETTES THEN JSONstringify(savedPalettesToJson(sp))
     ELSE Raw(format)]

\* rendering App throws (and React unmounts the tree) when savedPalettes is a
\* value without .length (line 818), or with a length > 0 and no .map (line 829)
renderThrows(sp) ==
  \/ sp.t \in {"null", "undef"}
  \/ sp.t = "str" /\ sp.s # ""
  \/ sp.t = "obj" /\ Prop(sp, "length").t = "num" /\ Prop(sp, "length").n > 0

(* ----------------------- stored contents (inputs) ----------------------- *)

\* a well-formed record as an earlier session saved it at clock reading i
WellFormed(i) ==
  LET mixes == <<[id |-> Ms(1), color |-> "#e11d48", valid |-> TRUE, locked |-> FALSE],
                 [id |-> Ms(2), color |-> "#2563eb", valid |-> TRUE, locked |-> TRUE]>>
      mixed == mixedColorOf(mixes)
  IN [id |-> Ms(i), name |-> "P" \o ToString(i), mixColors |-> mixes, mixedColor |-> mixed,
      palette |-> generatePalette(mixed, "triadic", COUNT_MIN, NoFault), type |-> "triadic",
      count |-> COUNT_MIN, gradientDirection |-> "to bottom"]

\* the record a save of the freshly opened application writes
FirstSave ==
  LET mixes == <<[id |-> Ms(1), color |-> "#e11d48", valid |-> TRUE, locked |-> FALSE],
                 [id |-> Ms(2), color |-> "#2563eb", valid |-> TRUE, locked |-> FALSE]>>
      mixed == mixedColorOf(mixes)
  IN [id |-> Ms(3), name |-> " first ", mixColors |-> mixes, mixedColor |-> mixed,
      palette |-> generatePalette(mixed, "monochromatic", 5, NoFault), type |-> "monochromatic",
      count |-> 5, gradientDirection |-> "to right"]

\* n well-formed records, newest first
Newest(n) == [k \in 1..n |-> WellFormed(n + 1 - k)]

WF(i) == savedPaletteToJson(WellFormed(i))

\* the text JSON.stringify writes for a collection of records
TextOf(recs) == Json(JArr([i \in 1..Len(recs) |-> savedPaletteToJson(recs[i])]))

\* two records an earlier session left under one id
SameIdTwice == TextOf(<<WellFormed(2), [WellFormed(1) EXCEPT !.id = Ms(2)]>>)

\* what the saved-palettes key may hold that parses to an array of well-formed records
WellFormedContents ==
  { Json(JArr(<< >>)),
    Json(JArr(<<WF(1)>>)),
    TextOf(<<FirstSave>>),
    TextOf(Newest(MAX_SAVED_PALETTES - 1)),
    TextOf(Newest(MAX_SAVED_PALETTES)),
    TextOf(Newest(MAX_SAVED_PALETTES + Extra)),
    \* oldest first, and the same id twice
    Json(JArr(<<WF(1), WF(2)>>)),
    Json(JArr(<<WF(2), WF(2)>>)),
    SameIdTwice }

\* a record with every field missing
NoFields == Json(JArr(<<JObj(<< >>)>>))

\* a record whose stored valid flags disagree with its stored colors, and whose
\* palette is shorter than its count
Disagreeing ==
  Json(JArr(<<JObj([id |-> JNum(Ms(1)),
                    mixColors |-> JArr(<<
                      JObj([id |-> JNum(Ms(1)), color |-> JStr("zzz"), valid |-> JBool(TRUE)]),
                      JObj([id |-> JNum(Ms(2)), color |-> JStr("#e11d48"), valid |-> JBool(FALSE)]),
                      JObj([id |-> JNum(Ms(3)), color |-> JStr("#2563eb")])>>),
                    palette |-> JArr(<<JStr("#e11d48")>>),
                    count |-> JNum(4)])>>))

\* records with missing or untrustworthy fields, which the map still accepts
LenientContents ==
  { NoFields,
    Json(JArr(<<JObj(<< >>), JObj(<< >>)>>)),
    \* a scalar among the elements
    Json(JArr(<<JNum(5), WF(1)>>)),
    \* ingredient lists of bare strings, empty, and of records without fields
    Json(JArr(<<WF(2), JObj([id |-> JNum(Ms(1)),
                             mixColors |-> JArr(<<JStr("#123456"), JStr("zzz"), JStr("")>>)])>>)),
    Json(JArr(<<JObj([id |-> JNum(Ms(1)), mixColors |-> JArr(<< >>)])>>)),
    Json(JArr(<<JObj([id |-> JNum(Ms(1)), mixColors |-> JArr(<<JObj(<< >>), JNum(7)>>)])>>)),
    Disagreeing }

\* contents on which a property read throws inside the map
ThrowingContents ==
  { Json(JArr(<<WF(2), JNull>>)),
    Json(JArr(<<JNull, WF(1)>>)),
    Json(JArr(<<WF(2), JObj([id |-> JNum(Ms(1)),
                             mixColors |-> JArr(<<JStr("#123456"), JNull>>)])>>)) }

\* contents that are no array
NonArrayContents ==
  { Absent, Raw("[oops"), Raw("null"), Raw("5"), Raw("true"), Quoted("hello"), Quoted(""),
    Json(JObj(<< >>)), Json(JObj([length |-> JNum(25)])) }

SavedContents ==
  WellFormedContents \cup LenientContents \cup ThrowingContents \cup NonArrayContents

DarkContents == {Absent, Raw("true"), Raw("false"), Quoted("yes"), Raw("1")}
FormatContents == {Absent, Raw("rgb"), Quoted("hsl"), Quoted("cmyk"), Raw("true")}

StoreOf(sv, dk, fm) ==
  [k \in LOCAL_STORAGE_KEYS |->
     IF k = KEY_DARK_MODE THEN dk ELSE IF k = KEY_SAVED_PALETTES THEN sv ELSE fm]

\* the stores a page is opened on: every saved-palettes content with no
\* preference stored, and every preference content with no palettes stored
AllStores ==
  {StoreOf(sv, Absent, Absent) : sv \in SavedContents}
    \cup {StoreOf(Absent, dk, fm) : dk \in DarkContents, fm \in FormatContents}

\* the stores the full application is explored from
AppStores ==
  { StoreOf(Absent, Absent, Absent),
    StoreOf(TextOf(<<FirstSave>>), Raw("true"), Raw("rgb")),
    StoreOf(TextOf(Newest(MAX_SAVED_PALETTES - 1)), Absent, Absent),
    StoreOf(TextOf(Newest(MAX_SAVED_PALETTES)), Absent, Absent),
    StoreOf(TextOf(Newest(MAX_SAVED_PALETTES + Extra)), Absent, Absent),
    StoreOf(NoFields, Absent, Absent),
    StoreOf(Disagreeing, Absent, Absent),
    StoreOf(SameIdTwice, Absent, Absent) }

\* the longest stored ingredient list the properties look into
MaxStrings == 3

(* ------------------------------ user inputs ----------------------------- *)

\* what getRandomHexColor() may give
RandomHex == {"#808080"}
\* what is typed or picked into a color input
EditTokens == {"zzz", "#000000"}
\* the argument of addMixColor: none (the button), or a color picked from an image
AddChoices == {NULL, "#ffffff"}
CountChoices == {COUNT_MIN, COUNT_MAX}
DirectionChoices == {"to bottom"}
\* what is typed into the name input
NameInputs == {"renamed", "   "}

\* String.prototype.trim on the names of the model
Trim(s) ==
  CASE s = "   " -> ""
    [] s = " first " -> "first"
    [] OTHER -> s

\* the files the import input is given: none, one of another type, or a JSON file
NoFile == [type |-> "none"]
JsonFile(text) == [type |-> "application/json", text |-> text]

(* -------------------------------- state --------------------------------- *)

VARIABLES
  storage,           \* localStorage: key -> stored text
  clock,             \* Date.now(), in ms
  nextMixColorId,    \* the module-level id counter (line 119)
  mixColors,         \* the ingredient working set
  mixedColor,        \* the base color, or NULL
  paletteType,
  colorCount,
  palette,
  gradientDirection,
  savedPalettes,     \* JArr of records, or whatever the normalizer returned
  isDarkMode,
  displayFormat,
  feedbackMessage,
  editingPaletteId,
  editedPaletteName,
  pc,                \* "mounted": first render done, effects pending;
                     \* "effects": a handler ran, effects pending;
                     \* "idle": waiting for an event; "crashed": render threw
  ops,               \* user operations so far
  effectDeps,        \* the dependencies the two effects last ran with (React keeps
                     \* them per effect): mixColors; mixedColor, paletteType, colorCount
  downloaded,        \* the file the last export made the browser download, or NoFile
  call               \* the last direct call of a function of the module: its
                     \* arguments, the adapter's fault and what it returned

vars ==
  <<storage, clock, nextMixColorId, mixColors, mixedColor, paletteType, colorCount,
    palette, gradientDirection, savedPalettes, isDarkMode, displayFormat,
    feedbackMessage, editingPaletteId, editedPaletteName, pc, ops, effectDeps, downloaded, call>>

envV == <<storage, clock>>
derivedV == <<mixedColor, palette>>
viewV == <<paletteType, colorCount, gradientDirection>>
prefV == <<isDarkMode, displayFormat>>
editV == <<editingPaletteId, editedPaletteName>>
appV ==
  <<storage, clock, nextMixColorId, mixColors, mixedColor, paletteType, colorCount,
    palette, gradientDirection, savedPalettes, isDarkMode, displayFormat,
    feedbackMessage, editingPaletteId, editedPaletteName, pc, ops, effectDeps, downloaded>>

\* no function has been called directly
NoCall == [fn |-> "none"]

\* the useState initializers of App (lines 348-366), run at clock reading now on
\* the store `store`; the module counter starts at Date.now() (line 119)
stateOf(mixes, dark, fmt, sp) ==
  [mixColors |-> mixes, isDarkMode |-> dark.value.b, displayFormat |-> fmt.value.s,
   savedPalettes |-> sp.value, next |-> sp.next]

savedPalettesState(mixes, dark, fmt, store, now, seed, randomHex) ==
  stateOf(mixes, dark, fmt,
          loadStateFromLocalStorage(KEY_SAVED_PALETTES, JArr(<< >>), store,
                                    fmt.next, now, seed, randomHex))

displayFormatState(mixes, dark, store, now, seed, randomHex) ==
  savedPalettesState(mixes, dark,
                     loadStateFromLocalStorage(KEY_DISPLAY_FORMAT, JStr("hex"), store,
                                               dark.next, now, seed, randomHex),
                     store, now, seed, randomHex)

isDarkModeState(m1, m2, store, now, seed, randomHex, prefersDark) ==
  displayFormatState(<<m1.item, m2.item>>,
                     loadStateFromLocalStorage(KEY_DARK_MODE, JBool(prefersDark), store,
                                               m2.next, now, seed, randomHex),
                     store, now, seed, randomHex)

secondMixColor(m1, store, now, seed, randomHex, prefersDark) ==
  isDarkModeState(m1, createMixColorItem("#2563eb", m1.next, randomHex),
                  store, now, seed, randomHex, prefersDark)

Constructed(store, now, seed, randomHex, prefersDark) ==
  secondMixColor(createMixColorItem("#e11d48", Ms(now), randomHex),
                 store, now, seed, randomHex, prefersDark)

\* the dependency lists of the effects of lines 387-406 (lines 397 and 406)
depsOf(mixes, mixed, type, count) ==
  [mixColors |-> mixes, mixedColor |-> mixed, paletteType |-> type, colorCount |-> count]

\* the state of the component after its first render
Opened(c, store, now) ==
  /\ storage = store
  /\ clock = now
  /\ nextMixColorId = c.next
  /\ mixColors = c.mixColors
  /\ mixedColor = NULL
  /\ paletteType = "monochromatic"
  /\ colorCount = 5
  /\ palette = << >>
  /\ gradientDirection = "to right"
  /\ savedPalettes = c.savedPalettes
  /\ isDarkMode = c.isDarkMode
  /\ displayFormat = c.displayFormat
  /\ feedbackMessage = ""
  /\ editingPaletteId = NoId
  /\ editedPaletteName = ""
  /\ pc = IF renderThrows(c.savedPalettes) THEN "crashed" ELSE "mounted"
  /\ ops = 0
  /\ effectDeps = depsOf(c.mixColors, NULL, "monochromatic", 5)
  /\ downloaded = NoFile
  /\ call = NoCall

InitFrom(stores, media) ==
  \E store \in stores, seed \in 0..(IdScale - 1), randomHex \in RandomHex, prefersDark \in media :
    Opened(Constructed(store, StartClock, seed, randomHex, prefersDark), store, StartClock)

(* ------------------------------- actions -------------------------------- *)

\* A handler runs between renders, and the model counts it. While a name is
\* edited the focus is in the name input (autoFocus, line 833): another control
\* is reached only through its blur, which runs saveEditedPaletteName first.
Handling == pc = "idle" /\ ops < MaxOps /\ editingPaletteId = NoId
\* a key or a blur in the open name input
Editing == pc = "idle" /\ editingPaletteId # NoId
Edited == pc' = "effects" /\ UNCHANGED <<envV, ops, effectDeps, downloaded, call>>
Handled == pc' = "effects" /\ ops' = ops + 1 /\ UNCHANGED <<envV, effectDeps, downloaded, call>>

\* The effects after a render, as React runs them: on mount each effect runs;
\* later an effect runs when one of its dependencies is not the one it last
\* ran with. The handlers give setMixColors a new array each time; comparing the
\* lists by value skips only runs of the mix effect on the ingredients it last
\* ran with, which would set the color it set then.
mixEffectRuns == pc = "mounted" \/ mixColors # effectDeps.mixColors

paletteEffectRuns ==
  \/ pc = "mounted"
  \/ mixedColor # effectDeps.mixedColor
  \/ paletteType # effectDeps.paletteType
  \/ colorCount # effectDeps.colorCount

\* the base color after the mix effect (lines 387-397), if it runs
mixedAfterEffects == IF mixEffectRuns THEN mixedColorOf(mixColors) ELSE mixedColor

\* the palette the first pass leaves: the palette effect (lines 401-406) sees
\* the base color of the render it belongs to, not the one the mix effect sets
paletteAfterFirstPass ==
  IF paletteEffectRuns THEN paletteOf(mixedColor, paletteType, colorCount) ELSE palette

\* variant: the render the new base color causes does not run the palette effect
paletteAfterOnePass(mixed) == paletteAfterFirstPass

\* the palette at quiescence: a base color that changed renders again, and the
\* palette effect runs on it
paletteAfterEffects(mixed) ==
  IF mixed # mixedColor THEN paletteOf(mixed, paletteType, colorCount)
  ELSE paletteAfterFirstPass

\* the effects of lines 387-426, run to quiescence after a render
RunEffects ==
  /\ pc \in {"mounted", "effects"}
  /\ mixedColor' = mixedAfterEffects
  /\ palette' = paletteAfterEffects(mixedColor')
  /\ storage' = persisted(isDarkMode, savedPalettes, displayFormat)
  /\ pc' = "idle"
  /\ effectDeps' = depsOf(mixColors, mixedColor', paletteType, colorCount)
  /\ UNCHANGED <<clock, nextMixColorId, mixColors, viewV, savedPalettes, prefV,
                 feedbackMessage, editV, ops, downloaded, call>>

\* time passes
Tick ==
  /\ pc = "idle"
  /\ clock < StartClock + MaxClock
  /\ clock' = clock + 1
  /\ UNCHANGED <<storage, nextMixColorId, mixColors, derivedV, viewV, savedPalettes, prefV,
                 feedbackMessage, editV, pc, ops, effectDeps, downloaded, call>>

\* the timer of the "Clear feedback message" effect (lines 429-433)
clearFeedback ==
  /\ pc = "idle"
  /\ feedbackMessage # ""
  /\ feedbackMessage' = ""
  /\ UNCHANGED <<envV, nextMixColorId, mixColors, derivedV, viewV, savedPalettes, prefV,
                 editV, pc, ops, effectDeps, downloaded, call>>

\* the state of the component after the first render of a reload
Reopened(c) ==
  /\ nextMixColorId' = c.next
  /\ mixColors' = c.mixColors
  /\ savedPalettes' = c.savedPalettes
  /\ isDarkMode' = c.isDarkMode
  /\ displayFormat' = c.displayFormat
  /\ pc' = IF renderThrows(c.savedPalettes) THEN "crashed" ELSE "mounted"
  /\ mixedColor' = NULL
  /\ paletteType' = "monochromatic"
  /\ colorCount' = 5
  /\ palette' = << >>
  /\ gradientDirection' = "to right"
  /\ feedbackMessage' = ""
  /\ editingPaletteId' = NoId
  /\ editedPaletteName' = ""
  /\ effectDeps' = depsOf(c.mixColors, NULL, "monochromatic", 5)

\* the page is reloaded: the module and the component are constructed again
Reload ==
  /\ Handling
  /\ \E seed \in 0..(IdScale - 1), randomHex \in RandomHex, prefersDark \in BOOLEAN :
       Reopened(Constructed(storage, clock, seed, randomHex, prefersDark))
  /\ ops' = ops + 1
  /\ UNCHANGED <<envV, downloaded, call>>

\* handleMixColorChange(id, value) (lines 437-441); the inputs of a locked
\* ingredient are disabled (lines 690-691)
handleMixColorChange ==
  /\ Handling
  /\ \E k \in 1..Len(mixColors), value \in EditTokens :
       /\ ~mixColors[k].locked
       /\ mixColors' = [i \in 1..Len(mixColors) |->
                          IF mixColors[i].id = mixColors[k].id
                            THEN [mixColors[i] EXCEPT !.color = value,
                                                      !.valid = chromaValid(value)]
                          ELSE mixColors[i]]
  /\ Handled
  /\ UNCHANGED <<nextMixColorId, derivedV, viewV, savedPalettes, prefV, feedbackMessage, editV>>

\* addMixColor(colorToAdd) (lines 444-448)
addMixColor ==
  /\ Handling
  /\ Len(mixColors) < MaxMix
  /\ \E colorToAdd \in AddChoices, randomHex \in RandomHex :
       LET newColor == IF colorToAdd # NULL /\ colorToAdd # "" /\ chromaValid(colorToAdd)
                         THEN colorToAdd ELSE randomHex
           c == createMixColorItem(newColor, nextMixColorId, randomHex)
       IN /\ mixColors' = Append(mixColors, c.item)
          /\ nextMixColorId' = c.next
          /\ feedbackMessage' = "Color added: " \o newColor
  /\ Handled
  /\ UNCHANGED <<derivedV, viewV, savedPalettes, prefV, editV>>

\* removeMixColor(id) (lines 451-454)
removeMixColor ==
  /\ Handling
  /\ \E k \in 1..Len(mixColors) :
       IF Len(mixColors) <= 2
         THEN /\ feedbackMessage' = "Minimum of 2 mix colors required."
              /\ UNCHANGED mixColors
       ELSE /\ mixColors' = SelectSeq(mixColors, LAMBDA item : item.id # mixColors[k].id)
            /\ UNCHANGED feedbackMessage
  /\ Handled
  /\ UNCHANGED <<nextMixColorId, derivedV, viewV, savedPalettes, prefV, editV>>

\* toggleMixColorLock(id) (lines 456-463). wasLocked is assigned inside the
\* updater; React runs the updater either at once or at the next render, after
\* setFeedbackMessage has read wasLocked, so the notice may be either one.
toggleMixColorLock ==
  /\ Handling
  /\ \E k \in 1..Len(mixColors), eager \in BOOLEAN :
       LET id == mixColors[k].id
           hit == SelectSeq(mixColors, LAMBDA item : item.id = id)
           wasLocked == eager /\ hit[Len(hit)].locked
       IN /\ mixColors' = [i \in 1..Len(mixColors) |->
                             IF mixColors[i].id = id
                               THEN [mixColors[i] EXCEPT !.locked = ~mixColors[i].locked]
                             ELSE mixColors[i]]
          /\ feedbackMessage' = IF wasLocked THEN "Color Unlocked" ELSE "Color Locked"
  /\ Handled
  /\ UNCHANGED <<nextMixColorId, derivedV, viewV, savedPalettes, prefV, editV>>

\* variant of the test of line 468: the lock is not looked at
skipsItemWhateverLock(item, id) == id # NoId /\ item.id # id

\* the test of line 468: the updater returns this ingredient as it is
skipsItem(item, id) == item.locked \/ (id # NoId /\ item.id # id)

\* randomizeMixColors(id) (lines 465-475); id = NoId stands for null (all
\* unlocked). Each randomized ingredient gets its own draw; count is assigned
\* inside the updater, as wasLocked above.
randomizeMixColorsWith(id) ==
  /\ Handling
  /\ \E draw \in [1..Len(mixColors) -> RandomHex], eager \in BOOLEAN :
       LET count == IF eager
                      THEN Len(SelectSeq(mixColors, LAMBDA item : ~skipsItem(item, id)))
                    ELSE 0
       IN /\ mixColors' = [i \in 1..Len(mixColors) |->
                             IF skipsItem(mixColors[i], id) THEN mixColors[i]
                             ELSE [mixColors[i] EXCEPT !.color = draw[i],
                                                       !.valid = chromaValid(draw[i])]]
          /\ feedbackMessage' =
               IF count > 0
                 THEN (IF id = NoId
                         THEN "Randomized " \o ToString(count) \o " unlocked color(s)!"
                       ELSE "Color randomized!")
               ELSE (IF id # NoId THEN "Color is locked." ELSE "All colors are locked.")
  /\ Handled
  /\ UNCHANGED <<nextMixColorId, derivedV, viewV, savedPalettes, prefV, editV>>

\* the ids randomizeMixColors is called with: null from "Randomize Unlocked"
\* (line 723), an ingredient's id from its own button (line 693)
RandomizeTargets == {NoId} \cup {mixColors[k].id : k \in 1..Len(mixColors)}

randomizeMixColors == \E id \in RandomizeTargets : randomizeMixColorsWith(id)

\* handleTypeChange (line 477): the options of the select are PALETTE_TYPES
handleTypeChange ==
  /\ Handling
  /\ \E value \in PALETTE_TYPES : paletteType' = value
  /\ Handled
  /\ UNCHANGED <<nextMixColorId, mixColors, derivedV, colorCount, gradientDirection,
                 savedPalettes, prefV, feedbackMessage, editV>>

\* handleCountChange (line 478): the slider gives COUNT_MIN..COUNT_MAX
handleCountChange ==
  /\ Handling
  /\ \E value \in CountChoices : colorCount' = value
  /\ Handled
  /\ UNCHANGED <<nextMixColorId, mixColors, derivedV, paletteType, gradientDirection,
                 savedPalettes, prefV, feedbackMessage, editV>>

\* handleGradientDirectionChange (line 479)
handleGradientDirectionChange ==
  /\ Handling
  /\ \E value \in DirectionChoices : gradientDirection' = value
  /\ Handled
  /\ UNCHANGED <<nextMixColorId, mixColors, derivedV, paletteType, colorCount,
                 savedPalettes, prefV, feedbackMessage, editV>>

\* handleDisplayFormatChange (line 480): the options are DISPLAY_FORMATS
handleDisplayFormatChange ==
  /\ Handling
  /\ \E value \in DISPLAY_FORMATS : displayFormat' = value
  /\ Handled
  /\ UNCHANGED <<nextMixColorId, mixColors, derivedV, viewV, savedPalettes, isDarkMode,
                 feedbackMessage, editV>>

\* toggleDarkMode (line 493)
toggleDarkMode ==
  /\ Handling
  /\ isDarkMode' = ~isDarkMode
  /\ Handled
  /\ UNCHANGED <<nextMixColorId, mixColors, derivedV, viewV, savedPalettes, displayFormat,
                 feedbackMessage, editV>>

(* ----------------------- saved-palette handlers ------------------------- *)

\* the capacity test of line 516
\* variant of the guard: > for >=
atCapacityStrict(n) == n > MAX_SAVED_PALETTES

atCapacity(n) == n >= MAX_SAVED_PALETTES

\* newSavedPalette (lines 517-519); the name carries the time of day
newSavedPalette(now, mixes, mixed, pal, type, count, direction) ==
  [id |-> Ms(now),
   name |-> type \o " (" \o ToString(count) \o ") - " \o ToString(now),
   mixColors |-> mixes, mixedColor |-> mixed, palette |-> pal, type |-> type,
   count |-> count, gradientDirection |-> direction]

\* isDuplicate (line 520)
isDuplicate(saved, mixes, pal, type, count, direction) ==
  \E i \in 1..Len(saved) :
    /\ saved[i].palette = pal
    /\ saved[i].type = type
    /\ saved[i].count = count
    /\ saved[i].gradientDirection = direction
    /\ [j \in 1..Len(saved[i].mixColors) |-> saved[i].mixColors[j].color]
         = [j \in 1..Len(mixes) |-> mixes[j].color]

\* the updater of line 522
withNewPalette(prev, new) == sliceToMax(<<new>> \o prev)

\* saveCurrentPalette (lines 514-524). On a savedPalettes that is no array,
\* .some is not a function: the handler throws before it sets anything.
saveCurrentPalette ==
  /\ Handling
  /\ IF mixedColor = NULL \/ Len(palette) = 0 \/ ~chromaValid(mixedColor)
       THEN /\ feedbackMessage' = "Cannot save an empty or invalid palette."
            /\ UNCHANGED savedPalettes
     ELSE IF ~IsArray(savedPalettes)
       THEN UNCHANGED <<savedPalettes, feedbackMessage>>
     ELSE IF atCapacity(Len(savedPalettes.a))
       THEN /\ feedbackMessage' = "Max " \o ToString(MAX_SAVED_PALETTES) \o " palettes reached."
            /\ UNCHANGED savedPalettes
     ELSE IF isDuplicate(savedPalettes.a, mixColors, palette, paletteType, colorCount,
                         gradientDirection)
       THEN /\ feedbackMessage' = "This exact palette is already saved."
            /\ UNCHANGED savedPalettes
     ELSE /\ savedPalettes' =
               JArr(withNewPalette(savedPalettes.a,
                      newSavedPalette(clock, mixColors, mixedColor, palette, paletteType,
                                      colorCount, gradientDirection)))
          /\ feedbackMessage' = "Palette Saved!"
  /\ Handled
  /\ UNCHANGED <<nextMixColorId, mixColors, derivedV, viewV, prefV, editV>>

\* the records whose buttons the model presses: the first and the last of the list
Pressed(sp) == IF IsArray(sp) /\ Len(sp.a) > 0 THEN {1, Len(sp.a)} ELSE {}

\* the argument of setMixColors in loadSavedPalette (line 528)
loadedMixColors(mixes, now, seed) ==
  [j \in 1..Len(mixes) |->
     LET mc == mixes[j]
         color == IF mc.color # "" THEN mc.color ELSE "#ffffff"
     IN [id |-> IF mc.id # 0 THEN mc.id ELSE freshId(now, Rand(seed, 0, j)),
         color |-> color, valid |-> mc.valid, locked |-> mc.locked]]

\* loadSavedPalette(savedPalette) (lines 526-534) as a change of the state
loadInto(rec, seed) ==
  /\ mixColors' = loadedMixColors(rec.mixColors, clock, seed)
  /\ paletteType' = IF rec.type # "" THEN rec.type ELSE "monochromatic"
  /\ colorCount' = IF rec.count # 0 THEN rec.count ELSE 5
  /\ gradientDirection' = IF rec.gradientDirection # "" THEN rec.gradientDirection
                          ELSE "to right"

\* the Load button of a saved record (line 841)
loadSavedPalette ==
  /\ Handling
  /\ \E k \in Pressed(savedPalettes), seed \in 0..(IdScale - 1) :
       /\ loadInto(savedPalettes.a[k], seed)
       /\ feedbackMessage' = "Loaded: " \o savedPalettes.a[k].name
  /\ Handled
  /\ UNCHANGED <<nextMixColorId, derivedV, savedPalettes, prefV, editV>>

\* the updater of line 537
withoutPalette(prev, idToDelete) == SelectSeq(prev, LAMBDA p : p.id # idToDelete)

\* deleteSavedPalette(idToDelete) (lines 536-539), from the Delete button of a record
deleteSavedPalette ==
  /\ Handling
  /\ \E k \in Pressed(savedPalettes) :
       savedPalettes' = JArr(withoutPalette(savedPalettes.a, savedPalettes.a[k].id))
  /\ feedbackMessage' = "Palette Deleted."
  /\ Handled
  /\ UNCHANGED <<nextMixColorId, mixColors, derivedV, viewV, prefV, editV>>

\* startEditingPaletteName(paletteId, currentName) (line 549), from a record's name
startEditingPaletteName ==
  /\ Handling
  /\ \E k \in Pressed(savedPalettes) :
       /\ editingPaletteId' = savedPalettes.a[k].id
       /\ editedPaletteName' = savedPalettes.a[k].name
  /\ Handled
  /\ UNCHANGED <<nextMixColorId, mixColors, derivedV, viewV, savedPalettes, prefV,
                 feedbackMessage>>

\* handleEditNameChange (line 550): the name input exists while a record is edited
handleEditNameChange ==
  /\ Editing
  /\ \E i \in 1..Len(savedPalettes.a) : savedPalettes.a[i].id = editingPaletteId
  /\ \E value \in NameInputs : editedPaletteName' = value
  /\ Edited
  /\ UNCHANGED <<nextMixColorId, mixColors, derivedV, viewV, savedPalettes, prefV,
                 feedbackMessage, editingPaletteId>>

\* variant of the updater: every record takes the name
withNameAll(prev, id, trimmedName) ==
  [i \in 1..Len(prev) |-> [prev[i] EXCEPT !.name = trimmedName]]

\* the updater of line 554
withName(prev, id, trimmedName) ==
  [i \in 1..Len(prev) |-> IF prev[i].id = id THEN [prev[i] EXCEPT !.name = trimmedName]
                          ELSE prev[i]]

\* saveEditedPaletteName (lines 551-557)
saveEditedPaletteName ==
  /\ Editing
  /\ IF editingPaletteId = NoId \/ editingPaletteId = 0
       THEN UNCHANGED <<savedPalettes, feedbackMessage, editV>>
     ELSE /\ IF Trim(editedPaletteName) # ""
               THEN /\ savedPalettes' =
                         JArr(withName(savedPalettes.a, editingPaletteId, Trim(editedPaletteName)))
                    /\ feedbackMessage' = "Palette name updated."
             ELSE /\ feedbackMessage' = "Palette name cannot be empty."
                  /\ UNCHANGED savedPalettes
          /\ editingPaletteId' = NoId
          /\ editedPaletteName' = ""
  /\ Edited
  /\ UNCHANGED <<nextMixColorId, mixColors, derivedV, viewV, prefV>>

\* cancelEditPaletteName (line 558)
cancelEditPaletteName ==
  /\ Editing
  /\ editingPaletteId' = NoId
  /\ editedPaletteName' = ""
  /\ Edited
  /\ UNCHANGED <<nextMixColorId, mixColors, derivedV, viewV, savedPalettes, prefV,
                 feedbackMessage>>

(* -------------------------------- import -------------------------------- *)

ImportFiles ==
  { NoFile,
    [type |-> "text/plain", text |-> Raw("hello")],
    JsonFile(Raw("{oops")),
    JsonFile(Raw("null")),
    \* every required field
    JsonFile(Json(JObj([palette |-> JArr(<<JStr("#111111")>>), type |-> JStr("triadic"),
                        count |-> JNum(4),
                        mixColors |-> JArr(<<JStr("#123456"), JObj([color |-> JStr("zzz")]),
                                             JObj(<< >>)>>)]))),
    \* a single ingredient
    JsonFile(Json(JObj([palette |-> JArr(<< >>), type |-> JStr("analogous"),
                        count |-> JNum(COUNT_MIN), mixColors |-> JArr(<<JStr("#123456")>>),
                        gradientDirection |-> JStr("45deg")]))),
    \* no type and no count
    JsonFile(Json(JObj([palette |-> JArr(<<JStr("#111111")>>),
                        paletteType |-> JStr("triadic"), colorCount |-> JNum(4),
                        mixColors |-> JArr(<<JStr("#123456"), JStr("#e11d48")>>)]))),
    \* a null among the ingredients
    JsonFile(Json(JObj([palette |-> JArr(<< >>), type |-> JStr("triadic"), count |-> JNum(4),
                        mixColors |-> JArr(<<JStr("#123456"), JNull>>)]))),
    \* no palette
    JsonFile(Json(JObj([type |-> JStr("analogous"), count |-> JNum(4),
                        mixColors |-> JArr(<<JStr("#e11d48")>>)]))),
    \* a palette that is a text
    JsonFile(Json(JObj([palette |-> JStr("#111111"), type |-> JStr("analogous"),
                        count |-> JNum(4), mixColors |-> JArr(<<JStr("#e11d48")>>)]))),
    \* no type
    JsonFile(Json(JObj([palette |-> JArr(<< >>), count |-> JNum(4),
                        mixColors |-> JArr(<<JStr("#e11d48")>>)]))),
    \* no count
    JsonFile(Json(JObj([palette |-> JArr(<< >>), type |-> JStr("analogous"),
                        mixColors |-> JArr(<<JStr("#e11d48")>>)]))),
    \* no ingredients
    JsonFile(Json(JObj([palette |-> JArr(<< >>), type |-> JStr("analogous"),
                        count |-> JNum(4)]))),
    \* ingredients that are one color
    JsonFile(Json(JObj([palette |-> JArr(<< >>), type |-> JStr("analogous"),
                        count |-> JNum(4), mixColors |-> JStr("#e11d48")]))),
    \* one ingredient, and chroma cannot read it
    JsonFile(Json(JObj([palette |-> JArr(<< >>), type |-> JStr("monochromatic"),
                        count |-> JNum(4), mixColors |-> JArr(<<JStr("zzz")>>)]))) }

\* importedData.mixColors.map(...) of line 574, from entry j on
RECURSIVE importedMixColors(_, _, _, _)
importedMixColorsAfter(c, entries, j, randomHex) ==
  consItem(c, importedMixColors(entries, j + 1, c.next, randomHex))

importedMixColors(entries, j, nextId, randomHex) ==
  IF j > Len(entries) THEN [threw |-> FALSE, items |-> << >>, next |-> nextId]
  ELSE IF entries[j].t = "null" THEN [threw |-> TRUE, items |-> << >>, next |-> nextId]
  ELSE importedMixColorsAfter(
         createMixColorItem(IF entries[j].t = "str" THEN entries[j].s
                            ELSE IF Truthy(Prop(entries[j], "color"))
                              THEN Prop(entries[j], "color").s
                            ELSE NULL,
                            nextId, randomHex),
         entries, j, randomHex)

\* variant of the structure test: the palette is not looked at
acceptsImportAnyPalette(data) ==
  /\ Truthy(data)
  /\ Truthy(Prop(data, "type"))
  /\ Truthy(Prop(data, "count"))
  /\ IsArray(Prop(data, "mixColors"))

\* the structure test of line 573
acceptsImport(data) ==
  /\ Truthy(data)
  /\ IsArray(Prop(data, "palette"))
  /\ Truthy(Prop(data, "type"))
  /\ Truthy(Prop(data, "count"))
  /\ IsArray(Prop(data, "mixColors"))

\* lines 574-575 once the ingredients are mapped: paletteToLoad is loaded, or
\* the TypeError of the map ends in the catch of line 577
importMapped(data, m, seed) ==
  IF m.threw
    THEN /\ feedbackMessage' = "Import failed: Could not parse JSON."
         /\ nextMixColorId' = m.next
         /\ UNCHANGED <<mixColors, viewV>>
  ELSE /\ loadInto([mixColors |-> m.items,
                    type |-> Prop(data, "type").s,
                    count |-> Prop(data, "count").n,
                    gradientDirection |->
                      IF Truthy(Prop(data, "gradientDirection"))
                        THEN Prop(data, "gradientDirection").s
                      ELSE "to right"], seed)
       /\ nextMixColorId' = m.next
       /\ feedbackMessage' = "Palette imported successfully!"

\* the body of reader.onload (lines 571-578) on the parsed document
importParsed(data, randomHex, seed) ==
  IF ~acceptsImport(data)
    THEN /\ feedbackMessage' = "Import failed: Invalid JSON structure."
         /\ UNCHANGED <<nextMixColorId, mixColors, viewV>>
  ELSE importMapped(data,
                    importedMixColors(Prop(data, "mixColors").a, 1, nextMixColorId, randomHex),
                    seed)

\* handleFileImport with the reader's onload (lines 565-582)
importFile(file) ==
  /\ Handling
  /\ \E randomHex \in RandomHex, seed \in 0..(IdScale - 1) :
       IF file = NoFile
         THEN /\ feedbackMessage' = "No file selected."
              /\ UNCHANGED <<nextMixColorId, mixColors, viewV>>
       ELSE IF file.type # "application/json"
         THEN /\ feedbackMessage' = "Invalid file type. Please select JSON."
              /\ UNCHANGED <<nextMixColorId, mixColors, viewV>>
       ELSE IF ~JSONparse(file.text).ok
         THEN /\ feedbackMessage' = "Import failed: Could not parse JSON."
              /\ UNCHANGED <<nextMixColorId, mixColors, viewV>>
       ELSE importParsed(JSONparse(file.text).v, randomHex, seed)
  /\ Handled
  /\ UNCHANGED <<derivedV, savedPalettes, prefV, editV>>

\* the file the user can pick besides the prepared ones: the one an export wrote
Downloaded == IF downloaded = NoFile THEN {} ELSE {downloaded}

\* the file input changes (line 823): the user picked a file, or none
handleFileImport == \E file \in ImportFiles \cup Downloaded : importFile(file)

(* -------------------------------- export -------------------------------- *)

\* palette.join(', ') of line 543, from entry j on
RECURSIVE joined(_, _)
joined(pal, j) ==
  IF j > Len(pal) THEN ""
  ELSE IF j = Len(pal) THEN pal[j]
  ELSE pal[j] \o ", " \o joined(pal, j + 1)

\* mixedColor.substring(1), as a term over the color
withoutHash(color) == "substring1(" \o color \o ")"

\* exportData (line 543)
exportData(mixes, mixed, type, count, pal, direction) ==
  JObj([name |-> JStr(type \o "_" \o withoutHash(mixed)),
        mixColors |-> JArr([i \in 1..Len(mixes) |-> JStr(mixes[i].color)]),
        mixedColor |-> JStr(mixed),
        paletteType |-> JStr(type),
        colorCount |-> JNum(count),
        palette |-> JArr([i \in 1..Len(pal) |-> JStr(pal[i])]),
        gradientDirection |-> JStr(direction),
        gradientCSS |-> JStr("linear-gradient(" \o direction \o ", " \o joined(pal, 1) \o ")")])

\* downloadJson (lines 109-116): a .json file holding JSON.stringify(data, null, 2)
downloadJson(data) == JsonFile(JSONstringify(data))

\* exportPaletteJson (lines 541-546), from the Export JSON button (line 774).
\* A behaviour follows one download, and the model does not count the handler.
exportPaletteJson ==
  /\ Handling
  /\ downloaded = NoFile
  /\ IF mixedColor = NULL \/ Len(palette) = 0 \/ ~chromaValid(mixedColor)
       THEN /\ feedbackMessage' = "Cannot export an empty or invalid palette."
            /\ UNCHANGED downloaded
     ELSE /\ downloaded' = downloadJson(exportData(mixColors, mixedColor, paletteType,
                                                    colorCount, palette, gradientDirection))
          /\ feedbackMessage' = "Palette JSON exported!"
  /\ pc' = "effects"
  /\ UNCHANGED <<envV, ops, effectDeps, call, nextMixColorId, mixColors, derivedV, viewV,
                 savedPalettes, prefV, editV>>

(* ---------------------------- specifications ---------------------------- *)

\* the application opened on one of AppStores, with every handler
Init == InitFrom(AppStores, {FALSE})

Next ==
  \/ RunEffects
  \/ Tick
  \/ clearFeedback
  \/ Reload
  \/ handleMixColorChange
  \/ addMixColor
  \/ removeMixColor
  \/ toggleMixColorLock
  \/ randomizeMixColors
  \/ handleTypeChange
  \/ handleCountChange
  \/ handleGradientDirectionChange
  \/ handleDisplayFormatChange
  \/ toggleDarkMode
  \/ saveCurrentPalette
  \/ loadSavedPalette
  \/ deleteSavedPalette
  \/ startEditingPaletteName
  \/ handleEditNameChange
  \/ saveEditedPaletteName
  \/ cancelEditPaletteName
  \/ handleFileImport

Spec == Init /\ [][Next]_vars

\* the page opened and reopened on every stored content: the normalizer applied
\* to each, and the records it returns loaded
NormInit == InitFrom(AllStores, BOOLEAN)

NormNext ==
  \/ RunEffects
  \/ Tick
  \/ Reload
  \/ loadSavedPalette

NormSpec == NormInit /\ [][NormNext]_vars

\* The functions of the module called directly: the arguments a caller may pass
BaseInputs == {NULL, "", "zzz", "#000000", "#ffffff", "#FFF", "#e11d48", "red"}
TypeInputs == PALETTE_TYPES \cup {"tetradic"}
CountInputs == (0 - 1)..COUNT_MAX
FormatInputs == DISPLAY_FORMATS \cup {"name", "cmyk"}

\* the first samples of a palette, the ones a sample fault may hit
MaxFaultAt == 2

GenerateFaults ==
  {NoFault, Throws("conversion"), Throws("hue"), Throws("lighten"), Throws("darken"),
   Throws("scale")}
    \cup {SampleThrows(k) : k \in 1..MaxFaultAt}
    \cup {SampleInvalid(k) : k \in 1..MaxFaultAt}

FormatFaults ==
  {NoFault, Throws("conversion"), Throws("rgb"), Throws("hsl"), Throws("name"),
   Throws("hex"), Throws("name and hex")}

\* generatePalette(baseColor, type, count) is called; a behaviour follows one
\* call, whose result depends on nothing but its arguments
callGeneratePalette ==
  /\ call = NoCall
  /\ \E baseColor \in BaseInputs, type \in TypeInputs, count \in CountInputs,
        fault \in GenerateFaults :
       call' = [fn |-> "generatePalette", baseColor |-> baseColor, type |-> type,
                count |-> count, fault |-> fault,
                result |-> generatePalette(baseColor, type, count, fault)]
  /\ UNCHANGED appV

\* safeColorFormat(color, format) is called
callSafeColorFormat ==
  /\ call = NoCall
  /\ \E color \in BaseInputs, format \in FormatInputs, fault \in FormatFaults :
       call' = [fn |-> "safeColorFormat", color |-> color, format |-> format,
                fault |-> fault, result |-> safeColorFormat(color, format, fault)]
  /\ UNCHANGED appV

FnInit == InitFrom({StoreOf(Absent, Absent, Absent)}, {FALSE})

FnNext == callGeneratePalette \/ callSafeColorFormat

FnSpec == FnInit /\ [][FnNext]_vars

\* The ingredient handlers on a working set some of whose ingredients are
\* locked: the page opened on an empty store, the lock buttons pressed (line 688)
\* and the notice cleared, then the handlers of the ingredient list
withLocks(c, locks) ==
  [c EXCEPT !.mixColors = [i \in 1..Len(c.mixColors) |->
                             [c.mixColors[i] EXCEPT !.locked = locks[i]]]]

MixInit ==
  \E seed \in 0..(IdScale - 1), randomHex \in RandomHex, locks \in [1..2 -> BOOLEAN] :
    Opened(withLocks(Constructed(StoreOf(Absent, Absent, Absent), StartClock, seed,
                                 randomHex, FALSE), locks),
           StoreOf(Absent, Absent, Absent), StartClock)

MixNext ==
  \/ RunEffects
  \/ Tick
  \/ handleMixColorChange
  \/ addMixColor
  \/ removeMixColor
  \/ toggleMixColorLock
  \/ randomizeMixColors

MixSpec == MixInit /\ [][MixNext]_vars

\* Export and import: the application with the Export JSON button, the file
\* input, which also offers the downloaded file, and the controls that change
\* what is exported
ExportInit == InitFrom({StoreOf(Absent, Absent, Absent), StoreOf(NoFields, Absent, Absent)},
                       {FALSE})

ExportNext ==
  \/ RunEffects
  \/ Tick
  \/ exportPaletteJson
  \/ handleFileImport
  \/ loadSavedPalette
  \/ handleMixColorChange
  \/ handleTypeChange
  \/ handleCountChange

ExportSpec == ExportInit /\ [][ExportNext]_vars

\* The preferences written and read back: the page opened with each preference
\* at any value its control gives it (the select of the display format, the
\* dark-mode button), on a store with and without saved palettes
withPreferences(c, dark, format) ==
  [c EXCEPT !.isDarkMode = dark, !.displayFormat = format]

PrefStores ==
  { StoreOf(Absent, Absent, Absent),
    StoreOf(TextOf(<<FirstSave>>), Absent, Absent),
    StoreOf(TextOf(Newest(MAX_SAVED_PALETTES)), Absent, Absent) }

PrefInit ==
  \E store \in PrefStores, seed \in 0..(IdScale - 1), randomHex \in RandomHex,
     dark \in BOOLEAN, format \in DISPLAY_FORMATS :
    Opened(withPreferences(Constructed(store, StartClock, seed, randomHex, FALSE),
                           dark, format),
           store, StartClock)

PrefNext ==
  \/ RunEffects
  \/ Tick
  \/ Reload
  \/ handleDisplayFormatChange
  \/ toggleDarkMode
  \/ saveCurrentPalette
  \/ deleteSavedPalette

PrefSpec == PrefInit /\ [][PrefNext]_vars

(* ------------------------------ properties ------------------------------ *)

\* the number of records the saved-palette collection holds
recordCount == IF IsArray(savedPalettes) THEN Len(savedPalettes.a) ELSE 0

\* the state the constructor left, before any effect wrote to the store
Hydrated == pc \in {"mounted", "crashed"}

\* what JSON.parse made of the saved-palettes text the constructor read
storedParse == JSONparse(storage[KEY_SAVED_PALETTES])
storedIsArray ==
  /\ storage[KEY_SAVED_PALETTES] # Absent
  /\ storedParse.ok
  /\ IsArray(storedParse.v)
storedIsNoArray ==
  /\ storage[KEY_SAVED_PALETTES] # Absent
  /\ storedParse.ok
  /\ ~IsArray(storedParse.v)

\* a stored ingredient with every field present and of its type
isMixColorJson(mc) ==
  /\ mc.t = "obj"
  /\ DOMAIN mc.o = {"id", "color", "valid", "locked"}
  /\ mc.o.id.t = "num" /\ mc.o.id.n > 0
  /\ mc.o.color.t = "str" /\ mc.o.color.s # ""
  /\ mc.o.valid.t = "bool"
  /\ mc.o.locked.t = "bool"

\* a stored element with every field present, of its type, and not falsy
isSavedPaletteJson(p) ==
  /\ p.t = "obj"
  /\ DOMAIN p.o = {"id", "name", "mixColors", "mixedColor", "palette", "type", "count",
                   "gradientDirection"}
  /\ p.o.id.t = "num" /\ p.o.id.n > 0
  /\ p.o.name.t = "str" /\ p.o.name.s # ""
  /\ IsArray(p.o.mixColors)
  /\ \A j \in 1..Len(p.o.mixColors.a) : isMixColorJson(p.o.mixColors.a[j])
  /\ p.o.mixedColor.t = "str" /\ p.o.mixedColor.s # ""
  /\ IsArray(p.o.palette)
  /\ \A k \in 1..Len(p.o.palette.a) : p.o.palette.a[k].t = "str"
  /\ p.o.type.t = "str" /\ p.o.type.s # ""
  /\ p.o.count.t = "num" /\ p.o.count.n > 0
  /\ p.o.gradientDirection.t = "str" /\ p.o.gradientDirection.s # ""

\* the current generation result is one saveCurrentPalette accepts (line 515)
savable == mixedColor # NULL /\ Len(palette) > 0 /\ chromaValid(mixedColor)

\* C1: in every reachable state the saved-palette collection holds at most
\* MAX_SAVED_PALETTES (20) records, whatever the store held at start and
\* whichever of save, delete, rename, load and import ran.
C1_AtMostMaxRecords == recordCount <= MAX_SAVED_PALETTES

\* C1, its case: a save has just added a record and the collection is full
C1_Witness ==
  /\ pc = "effects"
  /\ feedbackMessage = "Palette Saved!"
  /\ recordCount = MAX_SAVED_PALETTES

\* C2 as stated: at 20 records, a save of a valid palette that is no duplicate
\* puts the new record in front, drops the oldest, and leaves 20 records.
C2_SaveAtCapacityEvicts ==
  [][(/\ saveCurrentPalette
      /\ recordCount = MAX_SAVED_PALETTES
      /\ savable
      /\ ~isDuplicate(savedPalettes.a, mixColors, palette, paletteType, colorCount,
                      gradientDirection))
     => /\ IsArray(savedPalettes')
        /\ Len(savedPalettes'.a) = MAX_SAVED_PALETTES
        /\ savedPalettes'.a[1] = newSavedPalette(clock, mixColors, mixedColor, palette,
                                                 paletteType, colorCount, gradientDirection)
        /\ SubSeq(savedPalettes'.a, 2, MAX_SAVED_PALETTES)
             = SubSeq(savedPalettes.a, 1, MAX_SAVED_PALETTES - 1)]_vars

\* C2, amended: at 20 records, a save of a valid palette is refused: the
\* collection is left as it was and the notice says the maximum is reached.
C2_SaveAtCapacityRefused ==
  [][(saveCurrentPalette /\ recordCount = MAX_SAVED_PALETTES /\ savable)
     => /\ savedPalettes' = savedPalettes
        /\ feedbackMessage' = "Max 20 palettes reached."]_vars

\* C2, its case: a save was attempted on a full collection
C2_Witness ==
  /\ pc = "effects"
  /\ ops > 0
  /\ feedbackMessage = "Max 20 palettes reached."
  /\ recordCount = MAX_SAVED_PALETTES

\* C3: in every reachable state, the hydrated one included, the saved-palette
\* collection is in strictly descending order of record id.
C3_SortedNewestFirst ==
  IsArray(savedPalettes) =>
    \A i \in 1..(Len(savedPalettes.a) - 1) :
      savedPalettes.a[i].id > savedPalettes.a[i + 1].id

\* C4: the working set of ingredients never has fewer than 2 members.
C4_AtLeastTwoIngredients == Len(mixColors) >= 2

\* C5: every ingredient of the working set has valid = chroma.valid(its color).
C5_ValidFlagConsistent ==
  \A i \in 1..Len(mixColors) : mixColors[i].valid = chromaValid(mixColors[i].color)

\* C6: every record of the saved-palette collection, made by a save or by the
\* normalizer with its defaults, has a palette as long as its count.
C6_PaletteLengthIsCount ==
  IsArray(savedPalettes) =>
    \A i \in 1..Len(savedPalettes.a) :
      Len(savedPalettes.a[i].palette) = savedPalettes.a[i].count

\* C7: for every stored value and every key the normalizer returns a validated
\* value of the key's type or the fallback: a sequence of records for the
\* saved palettes, a boolean for dark mode, one of the formats for the format.
C7_ValidatedOrFallback ==
  Hydrated =>
    /\ IsArray(savedPalettes)
    /\ isDarkMode \in BOOLEAN
    /\ displayFormat \in {"hex", "rgb", "hsl"}

\* C8: when the saved-palettes text parses to something that is no sequence,
\* the normalizer returns the fallback (the empty collection), not that value.
C8_NoArrayGivesFallback ==
  (Hydrated /\ storedIsNoArray) => savedPalettes = JArr(<< >>)

\* C9: each element of the stored sequence is coerced on its own: a well-formed
\* element among the first 20 appears in the result whatever its siblings are.
C9_SiblingsSurvive ==
  (Hydrated /\ storedIsArray) =>
    \A i \in 1..Len(storedParse.v.a) :
      (i <= MAX_SAVED_PALETTES /\ isSavedPaletteJson(storedParse.v.a[i])) =>
        /\ IsArray(savedPalettes)
        /\ \E j \in 1..Len(savedPalettes.a) :
             savedPaletteToJson(savedPalettes.a[j]) = storedParse.v.a[i]

\* the stored text parses to a sequence of well-formed records
storedAllWellFormed ==
  /\ storedIsArray
  /\ \A i \in 1..Len(storedParse.v.a) : isSavedPaletteJson(storedParse.v.a[i])

\* C10: normalizing a stored sequence of n well-formed records gives the first
\* min(n, 20) of them, coerced, in their order.
C10_FirstRecordsInOrder ==
  (Hydrated /\ storedAllWellFormed) =>
    /\ IsArray(savedPalettes)
    /\ savedPalettesToJson(savedPalettes)
         = JArr(Slice0(storedParse.v.a, MAX_SAVED_PALETTES))

\* C10, its case: more well-formed records were stored than the maximum
C10_Witness ==
  /\ Hydrated
  /\ storedAllWellFormed
  /\ Len(storedParse.v.a) > MAX_SAVED_PALETTES
  /\ recordCount = MAX_SAVED_PALETTES

\* what JSON.parse made of the display-format text the constructor read
storedFormat == JSONparse(storage[KEY_DISPLAY_FORMAT])
storedFormatAllowed ==
  /\ storage[KEY_DISPLAY_FORMAT] # Absent
  /\ storedFormat.ok
  /\ storedFormat.v.t = "str"
  /\ storedFormat.v.s \in {"hex", "rgb", "hsl"}

\* C11: for the display format the normalizer returns the stored value exactly
\* when it is a string of {hex, rgb, hsl}, and the fallback (hex, line 362) for
\* anything else.
C11_FormatAllowedOrFallback ==
  Hydrated =>
    displayFormat = IF storedFormatAllowed THEN storedFormat.v.s ELSE "hex"

\* C11, its case: an allowed string other than the fallback was stored and kept
C11_Witness == Hydrated /\ storedFormatAllowed /\ displayFormat = "hsl"

\* a stored element whose ingredient list holds bare strings only, at least one
isStringListJson(p) ==
  /\ p.t = "obj"
  /\ IsArray(Prop(p, "mixColors"))
  /\ Len(Prop(p, "mixColors").a) > 0
  /\ \A j \in 1..Len(Prop(p, "mixColors").a) : Prop(p, "mixColors").a[j].t = "str"

\* the stored text parses to a sequence of well-formed records and of records
\* with bare-string ingredient lists, some of each
storedMixesBareStrings ==
  /\ storedIsArray
  /\ \A i \in 1..Len(storedParse.v.a) :
       isSavedPaletteJson(storedParse.v.a[i]) \/ isStringListJson(storedParse.v.a[i])
  /\ \E i \in 1..Len(storedParse.v.a) : isSavedPaletteJson(storedParse.v.a[i])
  /\ \E i \in 1..Len(storedParse.v.a) : isStringListJson(storedParse.v.a[i])

\* the ingredients the normalizer made from bare strings: <<record, entry>>
promoted ==
  {ij \in (1..recordCount) \X (1..MaxStrings) :
     /\ ij[1] <= Len(storedParse.v.a)
     /\ isStringListJson(storedParse.v.a[ij[1]])
     /\ ij[2] <= Len(storedParse.v.a[ij[1]].o.mixColors.a)}

\* both kinds of record are accepted: the result has a record per element, the
\* well-formed ones as stored, the others with an ingredient per string
bothAccepted ==
  /\ IsArray(savedPalettes)
  /\ Len(savedPalettes.a) = Len(storedParse.v.a)
  /\ \A i \in 1..Len(storedParse.v.a) :
       IF isSavedPaletteJson(storedParse.v.a[i])
         THEN savedPaletteToJson(savedPalettes.a[i]) = storedParse.v.a[i]
       ELSE Len(savedPalettes.a[i].mixColors) = Len(storedParse.v.a[i].o.mixColors.a)

\* a promoted ingredient has an id of its own, taken from the module counter
\* during this construction, and is not locked
promotedWithNewIds ==
  /\ \A ij \in promoted :
       /\ savedPalettes.a[ij[1]].mixColors[ij[2]].locked = FALSE
       /\ savedPalettes.a[ij[1]].mixColors[ij[2]].id > Ms(clock)
       /\ savedPalettes.a[ij[1]].mixColors[ij[2]].id <= nextMixColorId
  /\ \A ij, kl \in promoted :
       ij # kl => savedPalettes.a[ij[1]].mixColors[ij[2]].id
                    # savedPalettes.a[kl[1]].mixColors[kl[2]].id

\* C12 as stated: a sequence of one well-formed record and one record with a
\* list of bare strings is accepted whole, and each string becomes an
\* ingredient with a new id, locked = false and valid = chroma.valid(the string).
C12_PromotedValidFromString ==
  (Hydrated /\ storedMixesBareStrings) =>
    /\ bothAccepted
    /\ promotedWithNewIds
    /\ \A ij \in promoted :
         savedPalettes.a[ij[1]].mixColors[ij[2]].valid
           = chromaValid(storedParse.v.a[ij[1]].o.mixColors.a[ij[2]].s)

\* C12, amended: as C12, but the ingredient's color is the string, or a random
\* color when the string is empty, and valid = chroma.valid(that color).
C12_PromotedValidFromColor ==
  (Hydrated /\ storedMixesBareStrings) =>
    /\ bothAccepted
    /\ promotedWithNewIds
    /\ \A ij \in promoted :
         /\ savedPalettes.a[ij[1]].mixColors[ij[2]].color
              = IF storedParse.v.a[ij[1]].o.mixColors.a[ij[2]].s = ""
                  THEN CHOOSE h \in RandomHex : TRUE
                ELSE storedParse.v.a[ij[1]].o.mixColors.a[ij[2]].s
         /\ savedPalettes.a[ij[1]].mixColors[ij[2]].valid
              = chromaValid(savedPalettes.a[ij[1]].mixColors[ij[2]].color)

\* C12, its case: a stored list with a valid, an invalid and an empty string
C12_Witness ==
  /\ Hydrated
  /\ storedMixesBareStrings
  /\ \E ij \in promoted : savedPalettes.a[ij[1]].mixColors[ij[2]].color = "zzz"
  /\ \E ij \in promoted : storedParse.v.a[ij[1]].o.mixColors.a[ij[2]].s = ""

\* generatePalette was called, and what it was called with
isGenerate == call.fn = "generatePalette"
acceptableBase == call.baseColor # NULL /\ chromaValid(call.baseColor)
degenerateBase == chromaHex(call.baseColor) \in {"#000000", "#ffffff"}
sampleFault == call.fault.kind \in {"sample throws", "sample invalid"}

\* C13: generatePalette returns the empty sequence, and raises nothing, when the
\* base is absent or not a valid color token or count < 1, whatever the relation
\* type (and whatever the adapter would do).
C13_RejectedInputGivesEmpty ==
  (isGenerate /\ (~acceptableBase \/ call.count < 1)) => call.result = << >>

\* C13, its case: a valid base and a negative count on the branch that slices
C13_Witness ==
  /\ isGenerate
  /\ acceptableBase
  /\ call.count < 0
  /\ call.type = "complementary"
  /\ call.fault = NoFault
  /\ call.result = << >>

\* C14: for a valid base, a count in 1..12 and any relation type, with an
\* adapter whose calls return, generatePalette returns exactly count entries,
\* each a valid color token or the red fallback.
C14_ExactlyCountEntries ==
  (/\ isGenerate
   /\ acceptableBase
   /\ call.count \in 1..COUNT_MAX
   /\ (call.fault = NoFault \/ sampleFault))
  => /\ call.result # THROWN
     /\ Len(call.result) = call.count
     /\ \A i \in 1..Len(call.result) :
          chromaValid(call.result[i]) \/ call.result[i] = "#FF0000"

\* C14, its case: the complementary branch with count <= 2, which slices a pair
C14_Witness ==
  /\ isGenerate
  /\ acceptableBase
  /\ ~degenerateBase
  /\ call.type = "complementary"
  /\ call.count = 1
  /\ call.fault = NoFault
  /\ Len(call.result) = 1

\* the samples of the degenerate-luminance stop lists (lines 38, 40)
degenerateSamples(base, count) ==
  IF base = "#000000"
    THEN chromaScaleColors(<<"#000000", chromaBrighten("#000000"), "#888888">>, count)
  ELSE Reverse(chromaScaleColors(<<"#888888", chromaDarken("#ffffff"), "#ffffff">>, count))

\* C15: for a base of luminance 0 or 1, generatePalette samples the
\* degenerate-luminance stop list whatever the relation type is, recognized or
\* not; the relation switch (and so its hue calls) is not reached.
C15_DegenerateLuminanceIgnoresRelation ==
  (/\ isGenerate
   /\ acceptableBase
   /\ degenerateBase
   /\ call.count >= 1
   /\ call.fault \in {NoFault, Throws("hue")})
  => call.result = degenerateSamples(chromaHex(call.baseColor), call.count)

\* C15, its case: a black base with a relation other than the default
C15_Witness ==
  /\ isGenerate
  /\ call.baseColor = "#000000"
  /\ call.type = "triadic"
  /\ call.count = COUNT_MIN
  /\ call.fault = Throws("hue")
  /\ Len(call.result) = COUNT_MIN

\* the failing adapter call is one this run of generatePalette makes
faultHitsGenerate ==
  \/ call.fault.kind = "conversion"
  \/ /\ call.fault.kind = "scale"
     /\ (degenerateBase \/ call.type # "complementary" \/ call.count > 2)
  \/ /\ call.fault.kind = "hue"
     /\ ~degenerateBase
     /\ call.type \in {"analogous", "complementary", "triadic", "split-complementary"}
  \/ /\ call.fault.kind = "lighten"
     /\ \/ chromaHex(call.baseColor) = "#000000"
        \/ /\ ~degenerateBase
           /\ call.type \notin {"analogous", "complementary", "triadic", "split-complementary"}
  \/ /\ call.fault.kind = "darken"
     /\ \/ chromaHex(call.baseColor) = "#ffffff"
        \/ /\ ~degenerateBase
           /\ call.type \notin {"analogous", "complementary", "triadic", "split-complementary"}

\* C16: when an adapter call of the generation throws, generatePalette returns
\* the empty sequence and no exception reaches the caller; when only the
\* re-validation of one sample fails, that sample becomes the red fallback and
\* the other samples are the ones a faultless run gives.
C16_FailureGivesEmptyOrRedSample ==
  (isGenerate /\ acceptableBase /\ call.count >= 1) =>
    /\ call.result # THROWN
    /\ faultHitsGenerate => call.result = << >>
    /\ (sampleFault /\ call.fault.at <= call.count) =>
         /\ Len(call.result) = call.count
         /\ \A i \in 1..call.count :
              call.result[i] =
                IF i = call.fault.at THEN "#FF0000"
                ELSE generatePalette(call.baseColor, call.type, call.count, NoFault)[i]

\* C16, its cases: the scale call threw; the second of three samples failed
C16_Witness ==
  /\ isGenerate
  /\ acceptableBase
  /\ call.count = COUNT_MIN
  /\ call.fault = Throws("scale")
  /\ call.result = << >>

C16_WitnessSample ==
  /\ isGenerate
  /\ acceptableBase
  /\ call.count = COUNT_MIN
  /\ call.fault = SampleThrows(2)
  /\ call.result[2] = "#FF0000"
  /\ call.result[1] # "#FF0000"

\* the ingredients whose valid flag is set, and their colors in list order
flaggedValid == SelectSeq(mixColors, LAMBDA item : item.valid)
flaggedColors == [i \in 1..Len(flaggedValid) |-> flaggedValid[i].color]

\* chroma throws on one of the colors it is given
mixThrows == \E i \in 1..Len(flaggedColors) : ~chromaValid(flaggedColors[i])

\* C17: the mix effect leaves the base absent when no ingredient is flagged
\* valid or when the adapter throws, sets it to the canonical form of the one
\* valid ingredient, or to the adapter's average of all valid ingredients when
\* there are two or more; it leaves the ingredient list as it was.
C17_MixOfValidIngredients ==
  [][RunEffects =>
       /\ mixColors' = mixColors
       /\ mixedColor' =
            IF Len(flaggedValid) = 0 \/ mixThrows THEN NULL
            ELSE IF Len(flaggedValid) = 1 THEN chromaHex(flaggedColors[1])
            ELSE chromaAverage(flaggedColors)]_vars

\* C17, its case: an ingredient is flagged invalid and the base is that of the
\* others
C17_Witness ==
  /\ pc = "idle"
  /\ ops > 0
  /\ \E i \in 1..Len(mixColors) : ~mixColors[i].valid
  /\ Len(flaggedValid) >= 1
  /\ mixedColor # NULL

\* ingredients are present, none is flagged valid, and there is no mixed color
C17_WitnessNoneValid ==
  /\ pc = "idle"
  /\ ops > 0
  /\ Len(mixColors) > 0
  /\ Len(flaggedValid) = 0
  /\ mixedColor = NULL

\* a call of safeColorFormat has returned
isFormat == call.fn = "safeColorFormat"

\* the color is one the formatter renders: present and accepted by chroma
formattable == call.color # NULL /\ call.color # "" /\ chromaValid(call.color)

\* the name lookup of name mode fails and the hex conversion does not
nameLookupFails == call.format = "name" /\ call.fault.kind = "name"

\* an adapter call this mode makes fails, the lone name lookup apart
formatCallFails ==
  \/ call.fault.kind = "conversion"
  \/ call.format = "rgb" /\ call.fault.kind = "rgb"
  \/ call.format = "hsl" /\ call.fault.kind = "hsl"
  \/ call.format = "name" /\ call.fault.kind = "name and hex"
  \/ call.format \notin {"rgb", "hsl", "name"} /\ call.fault.kind \in {"hex", "name and hex"}

\* C18: whichever adapter call fails, safeColorFormat returns a text: "N/A" for
\* an absent or invalid color in every mode, "Error" when an adapter call of the mode
\* fails for a valid color, "~" followed by the hex form when the name lookup
\* of name mode fails, and neither sentinel when every call succeeds.
C18_FormatSentinels ==
  isFormat =>
    /\ ~formattable => call.result = "N/A"
    /\ formattable /\ formatCallFails => call.result = "Error"
    /\ formattable /\ nameLookupFails => call.result = "~" \o chromaHex(call.color)
    /\ formattable /\ ~formatCallFails /\ ~nameLookupFails =>
         call.result \notin {"N/A", "Error"}

\* C18, its case: the name lookup failed for a valid color and the marked hex
\* form came back
C18_Witness ==
  /\ isFormat
  /\ formattable
  /\ nameLookupFails
  /\ call.result = "~#e11d48"

\* an invalid token in a mode other than hex, with a failing adapter, gave "N/A"
C18_WitnessInvalid ==
  /\ isFormat
  /\ call.color = "zzz"
  /\ call.format = "hsl"
  /\ call.fault = Throws("hsl")
  /\ call.result = "N/A"

\* a valid color in rgb mode with a failing rgb call gave "Error"
C18_WitnessError ==
  /\ isFormat
  /\ formattable
  /\ call.format = "rgb"
  /\ call.fault = Throws("rgb")
  /\ call.result = "Error"

\* the file is read as JSON and is not JSON
unparsable(file) ==
  /\ file # NoFile
  /\ file.type = "application/json"
  /\ ~JSONparse(file.text).ok

\* the file is a JSON document without one of the four required fields
lacksRequiredField(file) ==
  /\ file # NoFile
  /\ file.type = "application/json"
  /\ JSONparse(file.text).ok
  /\ \/ JSONparse(file.text).v.t # "obj"
     \/ Prop(JSONparse(file.text).v, "palette").t # "arr"
     \/ Prop(JSONparse(file.text).v, "type") = JUndef
     \/ Prop(JSONparse(file.text).v, "count") = JUndef
     \/ Prop(JSONparse(file.text).v, "mixColors").t # "arr"

importFailures ==
  {"Import failed: Invalid JSON structure.", "Import failed: Could not parse JSON."}

\* C19: importing a document that cannot be parsed or that lacks a required
\* field (palette as a sequence, type, count, ingredients as a sequence) leaves
\* the ingredients, the relation type, the count, the gradient direction and
\* the saved palettes as they were and sets a failure notice and nothing else.
C19_DefectiveImportRejectedWhole ==
  [][\A file \in ImportFiles :
       importFile(file) /\ (unparsable(file) \/ lacksRequiredField(file)) =>
         /\ UNCHANGED <<mixColors, paletteType, colorCount, gradientDirection,
                        savedPalettes>>
         /\ UNCHANGED <<nextMixColorId, derivedV, prefV, editV, storage>>
         /\ feedbackMessage' \in importFailures]_vars

\* C19, its case: a handler has just refused a document for its structure
C19_Witness ==
  /\ pc = "effects"
  /\ ops > 0
  /\ feedbackMessage = "Import failed: Invalid JSON structure."

\* a handler has just refused a document it could not parse or map
C19_WitnessUnparsable ==
  /\ pc = "effects"
  /\ ops > 0
  /\ feedbackMessage = "Import failed: Could not parse JSON."

\* the records of a saved-palette collection
recordsOf(sp) == IF IsArray(sp) THEN sp.a ELSE << >>

\* the step is a rename that is carried out
renames ==
  /\ saveEditedPaletteName
  /\ editingPaletteId \notin {NoId, 0}
  /\ Trim(editedPaletteName) # ""

\* the step is a reload of the page: the component is constructed again
reloads == pc = "idle" /\ pc' \in {"mounted", "crashed"}

\* the step is a rename to an empty or whitespace-only name
renamesToNothing ==
  /\ saveEditedPaletteName
  /\ Trim(editedPaletteName) = ""

\* C20: a step never changes a field of a saved record other than its name: a
\* rename gives the trimmed name to the record whose id is edited and leaves
\* every other record as it was, a rename to an empty or whitespace-only name
\* changes nothing, and after any other step of the running page each record
\* of the collection is a record the collection held before, or the one just
\* saved at its head.
C20_SavedRecordsKeepAllButName ==
  [][/\ renames =>
          /\ Len(recordsOf(savedPalettes')) = Len(recordsOf(savedPalettes))
          /\ \A i \in 1..Len(recordsOf(savedPalettes)) :
               recordsOf(savedPalettes')[i] =
                 IF recordsOf(savedPalettes)[i].id = editingPaletteId
                   THEN [recordsOf(savedPalettes)[i] EXCEPT
                           !.name = Trim(editedPaletteName)]
                 ELSE recordsOf(savedPalettes)[i]
     /\ renamesToNothing => savedPalettes' = savedPalettes
     /\ ~renames /\ ~reloads =>
          \A i \in 1..Len(recordsOf(savedPalettes')) :
            \/ \E j \in 1..Len(recordsOf(savedPalettes)) :
                 recordsOf(savedPalettes)[j] = recordsOf(savedPalettes')[i]
            \/ /\ saveCurrentPalette
               /\ i = 1
               /\ Len(recordsOf(savedPalettes')) = Len(recordsOf(savedPalettes)) + 1]_vars

\* C20, its case: a rename has just given one record of several its new name
C20_Witness ==
  /\ pc = "effects"
  /\ feedbackMessage = "Palette name updated."
  /\ Len(recordsOf(savedPalettes)) >= 2
  /\ \E i, j \in 1..Len(recordsOf(savedPalettes)) :
       /\ recordsOf(savedPalettes)[i].name = "renamed"
       /\ recordsOf(savedPalettes)[j].name # "renamed"

\* a palette has just been saved in front of records that were there before
C20_WitnessSaved ==
  /\ pc = "effects"
  /\ feedbackMessage = "Palette Saved!"
  /\ Len(recordsOf(savedPalettes)) >= 2

\* a rename to a whitespace-only name has just been refused
C20_WitnessEmptyName ==
  /\ pc = "effects"
  /\ feedbackMessage = "Palette name cannot be empty."
  /\ Len(recordsOf(savedPalettes)) >= 1

\* C21: randomizeMixColors(id) returns every locked ingredient, and with an id
\* every ingredient of another id, as it was; the ingredients it does change
\* keep their id and their lock, and the list keeps its length and order.
C21_RandomizeKeepsLocked ==
  [][\A id \in RandomizeTargets :
       randomizeMixColorsWith(id) =>
         /\ Len(mixColors') = Len(mixColors)
         /\ \A i \in 1..Len(mixColors) :
              /\ mixColors'[i].id = mixColors[i].id
              /\ mixColors'[i].locked = mixColors[i].locked
              /\ mixColors[i].locked => mixColors'[i] = mixColors[i]
              /\ id # NoId /\ mixColors[i].id # id => mixColors'[i] = mixColors[i]]_vars

\* C21, its case: a randomization has just given an unlocked ingredient a new
\* color beside a locked one
C21_Witness ==
  /\ pc = "effects"
  /\ feedbackMessage = "Randomized 1 unlocked color(s)!"
  /\ \E i, j \in 1..Len(mixColors) :
       /\ mixColors[i].locked
       /\ mixColors[i].color \notin RandomHex
       /\ ~mixColors[j].locked
       /\ mixColors[j].color \in RandomHex

\* the button of a locked ingredient was pressed and nothing was randomized
C21_WitnessLockedTarget ==
  /\ pc = "effects"
  /\ feedbackMessage = "Color is locked."
  /\ \E i \in 1..Len(mixColors) : mixColors[i].locked

\* mix(current ingredients): the base color of the ingredients flagged valid
mixOfIngredients ==
  IF Len(flaggedValid) = 0 \/ mixThrows THEN NULL
  ELSE IF Len(flaggedValid) = 1 THEN chromaHex(flaggedColors[1])
  ELSE chromaAverage(flaggedColors)

\* C22: once the effects have run, the base color is the mix of the current
\* ingredients and the palette is the one generated from the current base
\* color, relation type and count, empty when there is no base color.
C22_DerivedStateIsCurrent ==
  pc = "idle" =>
    /\ mixedColor = mixOfIngredients
    /\ palette = IF mixedColor = NULL THEN << >>
                 ELSE generatePalette(mixedColor, paletteType, colorCount, NoFault)

\* C22, its case: a record was loaded, the effects have run, and the palette
\* on show is the generated one, not the one the record stores
C22_Witness ==
  /\ pc = "idle"
  /\ ops > 0
  /\ palette # << >>
  /\ \E k \in 1..Len(recordsOf(savedPalettes)) :
       /\ feedbackMessage = "Loaded: " \o recordsOf(savedPalettes)[k].name
       /\ recordsOf(savedPalettes)[k].palette # palette
       /\ recordsOf(savedPalettes)[k].mixedColor # mixedColor

\* a document was imported and the palette on show is not the one it carries
C22_WitnessImported ==
  /\ pc = "idle"
  /\ feedbackMessage = "Palette imported successfully!"
  /\ mixedColor # NULL
  /\ palette # <<"#111111">>
  /\ paletteType = "triadic"

\* a change of the ingredients changed the base color, and the first pass of
\* the effects left a palette of the earlier base color behind
C22_WitnessTwoPasses ==
  /\ pc = "effects"
  /\ mixEffectRuns
  /\ mixedAfterEffects # mixedColor
  /\ mixedAfterEffects # NULL
  /\ paletteAfterFirstPass # paletteAfterEffects(mixedAfterEffects)

\* C23: the records of the saved-palette collection have pairwise distinct ids.
C23_SavedIdsDistinct ==
  \A i, j \in 1..Len(recordsOf(savedPalettes)) :
    i # j => recordsOf(savedPalettes)[i].id # recordsOf(savedPalettes)[j].id

\* C23, the deletion: deleteSavedPalette(id) removes exactly one record and
\* leaves the others as they were, in their order.
C23_DeleteRemovesOne ==
  [][deleteSavedPalette =>
       \E k \in 1..Len(recordsOf(savedPalettes)) :
         recordsOf(savedPalettes') =
           [i \in 1..(Len(recordsOf(savedPalettes)) - 1) |->
              recordsOf(savedPalettes)[IF i < k THEN i ELSE i + 1]]]_vars

\* the document the downloaded file holds
exportedDocument == JSONparse(downloaded.text).v

\* C24: importing the file an export wrote is accepted, and the ingredient
\* colors, the relation type and the count are then those that were exported.
C24_ExportImportRoundTrip ==
  [][\A file \in Downloaded :
       importFile(file) =>
         /\ feedbackMessage' = "Palette imported successfully!"
         /\ [i \in 1..Len(mixColors') |-> JStr(mixColors'[i].color)]
              = Prop(exportedDocument, "mixColors").a
         /\ JStr(paletteType') = Prop(exportedDocument, "paletteType")
         /\ JNum(colorCount') = Prop(exportedDocument, "colorCount")]_vars

\* the file an export wrote has just been refused by the import
C24_ExportedFileRefused ==
  /\ pc = "effects"
  /\ downloaded # NoFile
  /\ ops > 0
  /\ feedbackMessage = "Import failed: Invalid JSON structure."
  /\ ~acceptsImport(exportedDocument)

\* C25: a reload, which reads the three keys the save effects wrote, gives
\* back the dark-mode flag, the display format and the saved palettes the
\* application held.
C25_PreferencesSurviveReload ==
  [][Reload =>
       /\ isDarkMode' = isDarkMode
       /\ displayFormat' = displayFormat
       /\ savedPalettes' = savedPalettes]_vars

\* C25, the part that holds: the dark-mode flag and the saved palettes come back
C25_DarkModeAndPalettesSurviveReload ==
  [][Reload =>
       /\ isDarkMode' = isDarkMode
       /\ savedPalettes' = savedPalettes]_vars

\* the display format was written, and the reload fell back to hex
C25_FormatLost ==
  /\ pc = "mounted"
  /\ ops > 0
  /\ storage[KEY_DISPLAY_FORMAT] = Raw("rgb")
  /\ displayFormat = "hex"

\* a dark page with saved palettes was reloaded
C25_DarkReloaded ==
  /\ pc = "mounted"
  /\ ops > 0
  /\ isDarkMode
  /\ Len(recordsOf(savedPalettes)) > 0

====
